---- MODULE Spec2Model ----
(***************************************************************************)
(* Real-time session layer of the lobbying investigator front end:         *)
(*   WebSocketService  (frontend_demo/lib/websocket-service.ts)            *)
(*   RealTimeService   (the session orchestrator built on top of it)       *)
(* One browser event-loop task (a caller's call up to its first await, a   *)
(* socket event, a timer callback) together with the promise continuations *)
(* it releases is one action.                                              *)
(***************************************************************************)
EXTENDS Integers, Sequences, FiniteSets, TLC

\* ---------------------------------------------------------------- bounds
MaxSock == 2      \* sockets that can be alive (not yet closed) at once
ConnBudget == 8   \* sockets created in one behaviour of SpecConn
SessBudget == 2   \* sockets created in one behaviour of Spec
WireBudget == 1   \* sockets created in one behaviour of SpecWire
WireStarts == 1   \* startSession invocations in one behaviour of SpecWire
MaxStarts == 2    \* startSession invocations in one behaviour
MaxStops == 2     \* stopSession invocations in one behaviour
MaxMembers == 2   \* members of a table carried by, or found in the text of, a message
FeedBudget == 1   \* sockets created in one behaviour of SpecFeed
FeedStarts == 1   \* startSession invocations in one behaviour of SpecFeed
OrderBudget == 1  \* sockets created in one behaviour of SpecOrder
OrderStarts == 1  \* startSession invocations in one behaviour of SpecOrder
MaxReceived == 3  \* messages received in one behaviour of SpecOrder
MaxLines == 4     \* lines of a text given to the Table Parser
MaxRank == 2      \* the largest number written in a rank cell
MaxNameCell == 7  \* tokens of a name cell
MaxStateCell == 5 \* characters of a state/district cell
MaxDigestMembers == 11 \* members of a table given to formatTableResults
MaxDigestRank == 2    \* the largest rank of such a member
MaxBillText == 6      \* characters of a text given to extractBillId

\* ------------------------------------------------------ program constants
maxReconnectAttempts == 5
reconnectInterval == 1000
StartTimeout == 30000
StopTimeout == 5000
TopCount == 10

Null == 0

VARIABLES
  socks,                  \* readyState of every WebSocket this service created
  ws,                     \* WebSocketService.ws (Null or a socket)
  reconnectAttempts,      \* WebSocketService.reconnectAttempts
  isManualClose,          \* WebSocketService.isManualClose
  messageHandlers,        \* WebSocketService.messageHandlers, in insertion order
  sessionId,              \* WebSocketService.sessionId
  timers,                 \* pending setTimeout callbacks, in creation order
  sessionActive,          \* RealTimeService.sessionActive
  currentSessionId,       \* RealTimeService.currentSessionId
  communicationCallback,  \* RealTimeService.communicationCallback (Null or the call that gave it)
  starts,                 \* the startSession invocations and where each stands
  stops,                  \* the stopSession invocations and where each stands
  nConnects,              \* sockets created so far
  autoRun,                \* sockets opened by reconnect timers since the last open event or caller connect()
  manualDown,             \* disconnect() has returned and the caller has not called connect() since
  faulty,                 \* handlers that threw during a dispatch
  lastEvt,                \* what the last task did
  history,                \* the calls of the callback so far, each with the number of its message
  argument,               \* the text or table cell a function of the Table Parser is called with
  result                  \* what that call returned

vars == <<socks, ws, reconnectAttempts, isManualClose, messageHandlers, sessionId,
          timers, sessionActive, currentSessionId, communicationCallback, starts,
          stops, nConnects, autoRun, manualDown, faulty, lastEvt, history,
          argument, result>>

SockIds == 1..MaxSock
StartIds == 1..MaxStarts
StopIds == 1..MaxStops

\* readyState: "connecting" (0), "open" (1), "closed" (3); the CLOSING state (2) is
\* split by what the browser will fire when the connection is gone:
\* "failing" = error event then close event, "closing" = close event only.
ReadyStates == {"closed", "connecting", "open", "failing", "closing"}

\* ------------------------------------------------------------ the state
\* The handlers call one another, so each is written as a function from the
\* state (a record of all variables but lastEvt) to the state after it.
Cur ==
  [socks |-> socks, ws |-> ws, reconnectAttempts |-> reconnectAttempts,
   isManualClose |-> isManualClose, messageHandlers |-> messageHandlers,
   sessionId |-> sessionId, timers |-> timers, sessionActive |-> sessionActive,
   currentSessionId |-> currentSessionId,
   communicationCallback |-> communicationCallback, starts |-> starts,
   stops |-> stops, nConnects |-> nConnects, autoRun |-> autoRun,
   manualDown |-> manualDown, faulty |-> faulty,
   micro |-> <<>>, invoked |-> {}, threw |-> {}, switchReached |-> FALSE,
   delivered |-> <<>>, sent |-> {}, settled |-> {}]

Commit(st) ==
  /\ socks' = st.socks
  /\ ws' = st.ws
  /\ reconnectAttempts' = st.reconnectAttempts
  /\ isManualClose' = st.isManualClose
  /\ messageHandlers' = st.messageHandlers
  /\ sessionId' = st.sessionId
  /\ timers' = st.timers
  /\ sessionActive' = st.sessionActive
  /\ currentSessionId' = st.currentSessionId
  /\ communicationCallback' = st.communicationCallback
  /\ starts' = st.starts
  /\ stops' = st.stops
  /\ nConnects' = st.nConnects
  /\ autoRun' = st.autoRun
  /\ manualDown' = st.manualDown
  /\ faulty' = st.faulty

\* A message field that is not there (undefined), as opposed to null
Undef == -1

\* A field that should hold a string and holds a value of another type
NonString == -2

\* A string field is Undef, NonString, or a text, which is represented by the number
\* of members the Table Parser finds in it (0: no table with a valid row)
Texts == 0..MaxMembers

\* message.data with none of the fields the handlers read
NoData ==
  [type |-> "absent", status |-> "absent", simplified |-> Undef, fullContent |-> Undef,
   success |-> FALSE, summary |-> Undef, badFindings |-> FALSE,
   table_available |-> FALSE, table_data |-> Undef, conclusion_message |-> Undef]

NoMsg == [jt |-> "none", type |-> "absent", timestamp |-> "absent", sessionId |-> Undef,
          text |-> "other", hasData |-> FALSE, data |-> NoData, error |-> Undef]

\* lastEvt after a task that is not the receipt of a message, or is not observed
NoEvt ==
  [raw |-> NoMsg, outcome |-> "none", msg |-> NoMsg, before |-> {}, invoked |-> {},
   threw |-> {}, switchReached |-> FALSE, delivered |-> <<>>, sent |-> {}, settled |-> {}]

\* ------------------------------------------------------------ transport
isConnectedIn(st) == st.ws # Null /\ st.socks[st.ws] = "open"

isConnected == isConnectedIn(Cur)

FreeSocks(st) == {s \in SockIds : st.socks[s] = "closed"}

NewSock(st) == CHOOSE s \in FreeSocks(st) : \A t \in FreeSocks(st) : s <= t

CanOpenSock(st, budget) == FreeSocks(st) # {} /\ st.nConnects < budget

\* a connect() that opens a socket whatever the state of the current one
connectIn_AlwaysNew(st, byTimer) ==
  IF FreeSocks(st) = {} THEN st
  ELSE LET s == NewSock(st) IN
       [st EXCEPT !.isManualClose = FALSE,
                  !.socks[s] = "connecting",
                  !.ws = s,
                  !.nConnects = @ + 1,
                  !.autoRun = IF byTimer THEN @ + 1 ELSE 0,
                  !.manualDown = IF byTimer THEN @ ELSE FALSE]

\* connect(): nothing when the current socket is open, else a new socket
connectIn(st, byTimer) ==
  IF isConnectedIn(st) THEN st
  ELSE LET s == NewSock(st) IN
       [st EXCEPT !.isManualClose = FALSE,
                  !.socks[s] = "connecting",
                  !.ws = s,
                  !.nConnects = @ + 1,
                  !.autoRun = IF byTimer THEN @ + 1 ELSE 0,
                  !.manualDown = IF byTimer THEN @ ELSE FALSE]

\* WebSocket.close() on the socket s
closeSock(socksNow, s) ==
  CASE socksNow[s] = "connecting" -> [socksNow EXCEPT ![s] = "failing"]
    [] socksNow[s] = "open" -> [socksNow EXCEPT ![s] = "closing"]
    [] OTHER -> socksNow

\* WebSocketService.disconnect()
disconnectIn(st) ==
  LET st1 == [st EXCEPT !.isManualClose = TRUE, !.manualDown = TRUE] IN
  IF st1.ws # Null
  THEN [st1 EXCEPT !.socks = closeSock(@, st1.ws), !.ws = Null]
  ELSE st1

\* ws.onclose
onclose(st) ==
  IF ~st.isManualClose /\ st.reconnectAttempts < maxReconnectAttempts
  THEN [st EXCEPT !.timers = Append(@, [kind |-> "reconnect", k |-> 0,
                                        delay |-> reconnectInterval * st.reconnectAttempts])]
  ELSE st

\* A timer fires only after every timer that was set earlier with a delay no longer than its own
CanFire(i) == \A j \in 1..(i - 1) : timers[j].delay > timers[i].delay

RemoveAt(seq, i) == SubSeq(seq, 1, i - 1) \o SubSeq(seq, i + 1, Len(seq))

\* ------------------------------------------------------------ wire messages
MsgTypes == {"agent_communication", "tool_call_start", "tool_call_result",
             "investigation_complete", "investigation_concluded",
             "investigation_started", "investigation_stopped",
             "connection_established", "investigation_error", "error"}

\* what event.data can be: not a string, the empty string, text that is not JSON,
\* or JSON text for null, a number, a string, a boolean, an array, an object
NonObjects ==
  {[NoMsg EXCEPT !.jt = j] :
     j \in {"binary", "emptystr", "garbage", "null", "number", "string", "boolean", "array"}}

\* an object's type and timestamp fields: absent, not a string, "", or a proper string
BadFields == {"absent", "nonstring", "emptystr"}

MalformedObjects ==
  {[NoMsg EXCEPT !.jt = "object", !.type = t, !.timestamp = ts] :
     t \in BadFields \cup {"agent_communication"}, ts \in BadFields}
  \cup {[NoMsg EXCEPT !.jt = "object", !.type = t, !.timestamp = "ok"] : t \in BadFields}

\* message.message: a string that mentions the investigation, a value that is not a
\* string, or anything else (absent, or a string that does not mention it)
MsgTexts == {"other", "investigation", "nonstring"}

\* sessionId of a message: absent, null, or one of the generated ids
MsgSids == {Undef, Null} \cup StartIds

WellFormed ==
  {[jt |-> "object", type |-> t, timestamp |-> "ok", sessionId |-> sid,
    text |-> x, hasData |-> d, data |-> NoData, error |-> Undef] :
     t \in MsgTypes \cup {"unknown_type"}, sid \in MsgSids, x \in MsgTexts, d \in BOOLEAN}

\* fields no handler reads for the message's type are left at their defaults
Relevant(m) ==
  /\ m.text # "other" => m.type = "error"
  /\ m.hasData => m.type \in {"agent_communication", "tool_call_start", "tool_call_result"}
  /\ m.sessionId # Undef =>
       m.type \in {"investigation_started", "agent_communication", "tool_call_start",
                   "investigation_stopped"}

RawPayloads == NonObjects \cup MalformedObjects \cup {m \in WellFormed : Relevant(m)}

\* the well-formed messages the start and stop handlers and the session flag react to
SessionPayloads ==
  {m \in WellFormed :
     /\ Relevant(m)
     /\ m.type \in {"investigation_started", "agent_communication", "investigation_stopped",
                    "investigation_complete", "investigation_error", "error"}
     /\ m.type = "agent_communication" => m.hasData
     /\ m.text # "nonstring"
     /\ m.sessionId # Undef \/ m.type \notin {"investigation_started", "agent_communication",
                                               "investigation_stopped"}}

hasStringType(m) == m.jt = "object" /\ m.type \notin {"absent", "nonstring"}

hasStringTimestamp(m) == m.jt = "object" /\ m.timestamp \notin {"absent", "nonstring"}

\* validateWebSocketMessage(message)
validateWebSocketMessage(m) ==
  /\ m.jt \in {"object", "array"}
  /\ hasStringType(m)
  /\ hasStringTimestamp(m)

\* the message the onmessage catch block hands to the handlers
SynthError == [NoMsg EXCEPT !.jt = "object", !.type = "error", !.timestamp = "ok"]

\* ws.onmessage without its check of message.timestamp
onmessageOutcome_NoTimestampCheck(raw) ==
  CASE raw.jt \in {"binary", "emptystr"} -> "drop"
    [] raw.jt \in {"garbage", "null"} -> "synth"
    [] raw.jt \in {"number", "string", "boolean", "array"} -> "drop"
    [] raw.type \in BadFields -> "drop"
    [] OTHER -> "dispatch"

\* ws.onmessage up to the call of handleMessage: "drop", "dispatch" or "synth"
onmessageOutcome(raw) ==
  CASE raw.jt \in {"binary", "emptystr"} -> "drop"     \* !event.data || typeof event.data !== 'string'
    [] raw.jt = "garbage" -> "synth"                    \* JSON.parse throws
    [] raw.jt = "null" -> "synth"                       \* message.type of null throws in the log call
    [] raw.jt \in {"number", "string", "boolean"} -> "drop"  \* not an object
    [] raw.jt = "array" -> "drop"                       \* message.type is undefined
    [] raw.type \in BadFields -> "drop"
    [] raw.timestamp \in BadFields -> "drop"
    [] OTHER -> "dispatch"

\* ------------------------------------------------------------ handler registry
RT == [id |-> "realtime_service", k |-> 0]

HasId(hs, id) == \E i \in 1..Len(hs) : hs[i].id = id

\* onMessage(id, handler): Map.set keeps the position of a key that is already there
onMessageIn(hs, h) ==
  IF HasId(hs, h.id)
  THEN [i \in 1..Len(hs) |-> IF hs[i].id = h.id THEN h ELSE hs[i]]
  ELSE Append(hs, h)

\* offMessage(id)
offMessageIn(hs, id) == SelectSeq(hs, LAMBDA h : h.id # id)

Registered(hs, h) == \E i \in 1..Len(hs) : hs[i] = h

\* ------------------------------------------------------------ promises
\* resolve/reject of the promise startInvestigation call k returned; a settled
\* promise ignores it. The awaiting startSession continues after the task.
settleStart(st, k, ok, value, why) ==
  IF st.starts[k].pc = "awaitStart"
  THEN [st EXCEPT !.starts[k].pc = "settled",
                  !.micro = Append(@, [kind |-> "start", k |-> k, ok |-> ok,
                                       value |-> value, why |-> why])]
  ELSE st

settleStop(st, j, ok) ==
  IF st.stops[j].pc = "awaitStop"
  THEN [st EXCEPT !.stops[j].pc = "settled",
                  !.micro = Append(@, [kind |-> "stop", k |-> j, ok |-> ok,
                                       value |-> Null, why |-> "none"])]
  ELSE st

\* startSession after `await startInvestigation(...)`
startSessionResume(st, c) ==
  IF c.ok
  THEN [st EXCEPT !.currentSessionId = c.value,
                  !.sessionActive = TRUE,
                  !.starts[c.k].pc = "done",
                  !.settled = @ \cup {c}]
  ELSE [st EXCEPT !.communicationCallback = Null,
                  !.starts[c.k].pc = "done",
                  !.settled = @ \cup {c}]

\* stopSession after `await stopInvestigation()`: catch logs, finally clears
stopSessionResume_NoFinally(st, c) ==
  IF c.ok
  THEN [st EXCEPT !.sessionActive = FALSE,
                  !.currentSessionId = Null,
                  !.communicationCallback = Null,
                  !.stops[c.k].pc = "done",
                  !.settled = @ \cup {c, [c EXCEPT !.kind = "stopSession"]}]
  ELSE [st EXCEPT !.stops[c.k].pc = "done",
                  !.settled = @ \cup {c, [c EXCEPT !.kind = "stopSession"]}]

\* stopSession after its await: c is the outcome of stopInvestigation. A rejection
\* is caught and logged, the finally block clears the session, and the promise of
\* stopSession resolves (the record of kind "stopSession").
stopSessionResume(st, c) ==
  [st EXCEPT !.sessionActive = FALSE,
             !.currentSessionId = Null,
             !.communicationCallback = Null,
             !.stops[c.k].pc = "done",
             !.settled = @ \cup {c, [c EXCEPT !.kind = "stopSession", !.ok = TRUE]}]

RECURSIVE runMicro(_)
runMicro(st) ==
  IF st.micro = <<>> THEN st
  ELSE LET c == Head(st.micro)
           st1 == [st EXCEPT !.micro = Tail(@)]
       IN runMicro(IF c.kind = "start" THEN startSessionResume(st1, c)
                   ELSE stopSessionResume(st1, c))

\* ------------------------------------------------------------ start / stop requests
StartAckTypes == {"investigation_started", "agent_communication", "tool_call_start"}

\* handleStart throws: message.message?.includes on a value that is not a string
handleStartThrows(m) == m.type = "error" /\ m.text = "nonstring"

\* handleStart of startInvestigation call k
handleStart(st, k, m) ==
  IF m.type \in StartAckTypes /\ m.sessionId = st.sessionId
  THEN settleStart([st EXCEPT !.messageHandlers = offMessageIn(@, "start_handler")],
                   k, TRUE, st.sessionId, "acknowledged")
  ELSE IF m.type = "investigation_error"
  THEN settleStart([st EXCEPT !.messageHandlers = offMessageIn(@, "start_handler")],
                   k, FALSE, Null, "investigation_error")
  ELSE IF m.type = "error" /\ m.text = "investigation"
  THEN settleStart([st EXCEPT !.messageHandlers = offMessageIn(@, "start_handler")],
                   k, FALSE, Null, "error")
  ELSE st

\* handleStop of stopInvestigation call j
handleStop(st, j, m) ==
  IF m.type = "investigation_stopped" /\ m.sessionId = st.sessionId
  THEN settleStop([st EXCEPT !.messageHandlers = offMessageIn(@, "stop_handler"),
                             !.sessionId = Null], j, TRUE)
  ELSE IF m.type = "error"
  THEN settleStop([st EXCEPT !.messageHandlers = offMessageIn(@, "stop_handler")], j, FALSE)
  ELSE st

\* startInvestigation(company, bill, description), called by startSession call k
startInvestigation(st, k) ==
  IF ~isConnectedIn(st)
  THEN settleStart([st EXCEPT !.starts[k].pc = "awaitStart"], k, FALSE, Null, "not_connected")
  ELSE [st EXCEPT !.sessionId = k,
                  !.messageHandlers = onMessageIn(@, [id |-> "start_handler", k |-> k]),
                  !.sent = @ \cup {[type |-> "start_investigation", sessionId |-> k]},
                  !.timers = Append(@, [kind |-> "start", k |-> k, delay |-> StartTimeout]),
                  !.starts[k].pc = "awaitStart"]

\* a start timer that rejects whatever the state of the socket
startTimeout_AlwaysReject(st, k) ==
  settleStart([st EXCEPT !.messageHandlers = offMessageIn(@, "start_handler")],
              k, FALSE, Null, "timeout")

\* the setTimeout callback of startInvestigation call k
startTimeout(st, k) ==
  LET st1 == [st EXCEPT !.messageHandlers = offMessageIn(@, "start_handler")] IN
  IF st1.sessionId # Null /\ isConnectedIn(st1)
  THEN settleStart(st1, k, TRUE, st1.sessionId, "assumed")
  ELSE settleStart(st1, k, FALSE, Null, "timeout")

\* stopInvestigation(), called by stopSession call j
stopInvestigation(st, j) ==
  IF ~isConnectedIn(st) \/ st.sessionId = Null
  THEN settleStop([st EXCEPT !.stops[j].pc = "awaitStop"], j, FALSE)
  ELSE [st EXCEPT !.messageHandlers = onMessageIn(@, [id |-> "stop_handler", k |-> j]),
                  !.sent = @ \cup {[type |-> "stop_investigation", sessionId |-> st.sessionId]},
                  !.timers = Append(@, [kind |-> "stop", k |-> j, delay |-> StopTimeout]),
                  !.stops[j].pc = "awaitStop"]

\* the setTimeout callback of stopInvestigation call j
stopTimeout(st, j) ==
  settleStop([st EXCEPT !.messageHandlers = offMessageIn(@, "stop_handler")], j, FALSE)

\* ------------------------------------------------------------ orchestrator
\* startSession from `this.communicationCallback = callback` on
startSessionBody(st, k) ==
  startInvestigation([st EXCEPT !.communicationCallback = k, !.starts[k].sock = Null], k)

\* terminal events with investigation_stopped counted among them
TerminalTypes_WithStopped ==
  {"investigation_complete", "investigation_concluded", "investigation_error",
   "investigation_stopped"}

\* terminal events without investigation_error
TerminalTypes_WithoutError == {"investigation_complete", "investigation_concluded"}

\* terminal events with the wire message of type error counted among them
TerminalTypes_WithWireError ==
  {"investigation_complete", "investigation_concluded", "investigation_error", "error"}

TerminalTypes == {"investigation_complete", "investigation_concluded", "investigation_error"}

\* An AgentCommunication: where it came from, its type and status, what its
\* simplified and fullContent texts are made of, the number of members the Table
\* Parser finds in fullContent (found), the number of members it speaks of (n) and
\* the number of members of its tableData (0: no tableData)
Comm(src, ctype, status, simplified, fullContent, found) ==
  [src |-> src, ctype |-> ctype, status |-> status, simplified |-> simplified,
   fullContent |-> fullContent, found |-> found, n |-> 0, tableData |-> 0]

\* parseCongressTable(text): the number of members of the table it returns, Null for null
parseCongressTable(found) == IF found >= 1 THEN found ELSE Null

\* transformWebSocketToAgentCommunication(message), for a message it does not return
\* null for
transformWebSocketToAgentCommunication(m) ==
  LET d == m.data IN
  Comm(m.type,
       IF d.type = "absent" THEN "message" ELSE d.type,
       IF d.status = "absent" THEN "completed" ELSE d.status,
       IF d.simplified # Undef THEN "data.simplified"
       ELSE IF d.fullContent = Undef THEN "undefined..."
       ELSE "data.fullContent.substring(0, 200)...",
       IF d.fullContent # Undef THEN "data.fullContent"
       ELSE IF d.simplified # Undef THEN "data.simplified"
       ELSE "No content available",
       IF d.fullContent \in Texts THEN d.fullContent
       ELSE IF d.fullContent = Undef /\ d.simplified \in Texts THEN d.simplified
       ELSE 0)

\* a checkForTableContent that leaves the status the backend sent
checkForTableContent_KeepStatus(c) ==
  LET parsedTable == parseCongressTable(c.found) IN
  IF parsedTable # Null
  THEN [c EXCEPT !.tableData = parsedTable,
                 !.ctype = "table_results",
                 !.fullContent = "formatTableResults(parsedTable)",
                 !.found = 0,
                 !.simplified = "Congress Investigation Results - n members analyzed",
                 !.n = parsedTable]
  ELSE c

\* checkForTableContent(communication): the communication after it
checkForTableContent(c) ==
  LET parsedTable == parseCongressTable(c.found) IN
  IF parsedTable # Null
  THEN [c EXCEPT !.tableData = parsedTable,
                 !.ctype = "table_results",
                 !.fullContent = "formatTableResults(parsedTable)",
                 !.found = 0,
                 !.simplified = "Congress Investigation Results - n members analyzed",
                 !.n = parsedTable,
                 !.status = "completed"]
  ELSE c

\* the handler of m's type throws before it has called the callback:
\* data.fullContent?.substring, details.key_findings.map or errorMessage.includes
\* on a value that has no such method
handlerThrows(m) ==
  CASE m.type = "agent_communication" ->
         m.hasData /\ m.data.simplified = Undef /\ m.data.fullContent = NonString
    [] m.type = "tool_call_result" -> m.hasData /\ m.data.badFindings
    [] m.type = "investigation_error" -> m.error = NonString
    [] OTHER -> FALSE

\* the Communications the handler of m's type passes to the callback, in order,
\* when nothing throws
commsFor(m) ==
  LET d == m.data IN
  CASE m.type = "agent_communication" ->
         IF m.hasData
         THEN <<checkForTableContent(transformWebSocketToAgentCommunication(m))>>
         ELSE <<>>
    [] m.type = "tool_call_start" ->
         IF m.hasData
         THEN <<Comm(m.type, "tool_call", "in_progress", "Executing tool: name",
                     "Tool call started: name, arguments", 0)>>
         ELSE <<>>
    [] m.type = "tool_call_result" ->
         IF m.hasData
         THEN <<Comm(m.type, "tool_call", IF d.success THEN "completed" ELSE "failed",
                     IF d.summary # Undef THEN "data.summary" ELSE "Tool name completed/failed",
                     "Tool call result: name, status, summary, findings, raw result",
                     IF d.summary \in Texts THEN d.summary ELSE 0)>>
         ELSE <<>>
    [] m.type = "investigation_complete" ->
         <<Comm(m.type, "message", "completed", "Investigation completed successfully",
                "JSON.stringify(message.data)", 0)>>
    [] m.type = "investigation_concluded" ->
         (IF m.hasData /\ d.table_available /\ d.table_data # Undef
          THEN <<[Comm(m.type, "table_results", "completed",
                       "Investigation Results - n members analyzed",
                       "JSON.stringify(data.table_data)", 0) EXCEPT !.n = d.table_data]>>
          ELSE <<>>)
         \o <<Comm(m.type, "message", "completed",
                   IF m.hasData /\ d.table_available
                   THEN "Investigation concluded - Table available"
                   ELSE "Investigation concluded - No table found",
                   "conclusion_message, table status, concluded by",
                   IF m.hasData /\ d.conclusion_message \in Texts
                   THEN d.conclusion_message ELSE 0)>>
    [] m.type = "investigation_error" ->
         <<Comm(m.type, "message", "failed", "Investigation encountered an error",
                "Error: errorMessage", IF m.error \in Texts THEN m.error ELSE 0)>>
    [] m.type = "error" ->
         <<Comm(m.type, "message", "failed", "Connection error occurred",
                "Connection Error: message.message", 0)>>
    [] OTHER -> <<>>

\* the Communication the catch block of handleWebSocketMessage passes to the callback
CriticalError ==
  Comm("critical_error", "message", "failed", "Critical system error occurred",
       "Critical Error: classifyError(error)", 0)

\* a handler that passes its Communications to the callback last first
deliverAll_Reversed(delivered, comms, thr) ==
  [delivered |-> delivered \o [i \in 1..Len(comms) |-> comms[Len(comms) + 1 - i]],
   threw |-> FALSE]

\* calls of the callback, one per Communication, until one throws; thr holds the
\* positions (among the calls of this dispatch) at which the callback throws
RECURSIVE deliverAll(_, _, _)
deliverAll(delivered, comms, thr) ==
  IF comms = <<>> THEN [delivered |-> delivered, threw |-> FALSE]
  ELSE LET now == Append(delivered, Head(comms)) IN
       IF Len(now) \in thr THEN [delivered |-> now, threw |-> TRUE]
       ELSE deliverAll(now, Tail(comms), thr)

\* handleWebSocketMessage after its validation: the switch on message.type inside
\* try, and the catch block; the result's rtThrew says whether it threw
dispatchByType(st, m, thr) ==
  LET st1 == [st EXCEPT !.switchReached = TRUE,
                        !.sessionActive = IF m.type \in TerminalTypes THEN FALSE ELSE @]
      comms == IF st.communicationCallback = Null \/ handlerThrows(m)
               THEN <<>> ELSE commsFor(m)
      r == deliverAll(st1.delivered, comms, thr)
      st2 == [st1 EXCEPT !.delivered = r.delivered]
  IN IF ~r.threw /\ ~handlerThrows(m) THEN [st |-> st2, rtThrew |-> FALSE]
     ELSE IF st.communicationCallback = Null THEN [st |-> st2, rtThrew |-> FALSE]
     ELSE \* catch: one more call of the callback
          LET now == Append(st2.delivered, CriticalError)
          IN [st |-> [st2 EXCEPT !.delivered = now], rtThrew |-> Len(now) \in thr]

\* a handleWebSocketMessage that does not validate the message
handleWebSocketMessage_NoValidation(st, m, thr) == dispatchByType(st, m, thr)

\* handleWebSocketMessage(message)
handleWebSocketMessage(st, m, thr) ==
  IF ~validateWebSocketMessage(m) THEN [st |-> st, rtThrew |-> FALSE]
  ELSE dispatchByType(st, m, thr)

\* a forEach callback whose catch block leaves the handler in the registry
invokeHandler_KeepFaulty(st, h, m, thr) ==
  LET st1 == [st EXCEPT !.invoked = @ \cup {h}] IN
  CASE h.id = "realtime_service" ->
         LET r == handleWebSocketMessage(st1, m, thr) IN
         IF r.rtThrew
         THEN [r.st EXCEPT !.threw = @ \cup {h}, !.faulty = @ \cup {h}]
         ELSE r.st
    [] h.id = "start_handler" ->
         IF handleStartThrows(m)
         THEN [st1 EXCEPT !.threw = @ \cup {h}, !.faulty = @ \cup {h}]
         ELSE handleStart(st1, h.k, m)
    [] OTHER -> handleStop(st1, h.k, m)

\* the body of the forEach callback of handleMessage for the entry h
invokeHandler(st, h, m, thr) ==
  LET st1 == [st EXCEPT !.invoked = @ \cup {h}] IN
  CASE h.id = "realtime_service" ->
         LET r == handleWebSocketMessage(st1, m, thr) IN
         IF r.rtThrew
         THEN [r.st EXCEPT !.messageHandlers = offMessageIn(@, h.id),
                           !.threw = @ \cup {h},
                           !.faulty = @ \cup {h}]
         ELSE r.st
    [] h.id = "start_handler" ->
         IF handleStartThrows(m)
         THEN [st1 EXCEPT !.messageHandlers = offMessageIn(@, h.id),
                          !.threw = @ \cup {h},
                          !.faulty = @ \cup {h}]
         ELSE handleStart(st1, h.k, m)
    [] OTHER -> handleStop(st1, h.k, m)

\* Map.forEach: the entries in insertion order, skipping those deleted meanwhile
RECURSIVE forEachHandler(_, _, _, _)
forEachHandler(st, hs, m, thr) ==
  IF hs = <<>> THEN st
  ELSE forEachHandler(IF Registered(st.messageHandlers, Head(hs))
                      THEN invokeHandler(st, Head(hs), m, thr)
                      ELSE st,
                      Tail(hs), m, thr)

\* handleMessage(message)
handleMessage(st, m, thr) == forEachHandler(st, st.messageHandlers, m, thr)

\* ------------------------------------------------------------ actions
\* the services after construction
ServiceInit ==
  /\ socks = [s \in SockIds |-> "closed"]
  /\ ws = Null
  /\ reconnectAttempts = 0
  /\ isManualClose = FALSE
  /\ messageHandlers = <<RT>>
  /\ sessionId = Null
  /\ timers = <<>>
  /\ sessionActive = FALSE
  /\ currentSessionId = Null
  /\ communicationCallback = Null
  /\ starts = [k \in StartIds |-> [pc |-> "idle", sock |-> Null]]
  /\ stops = [j \in StopIds |-> [pc |-> "idle"]]
  /\ nConnects = 0
  /\ autoRun = 0
  /\ manualDown = FALSE
  /\ faulty = {}
  /\ lastEvt = NoEvt
  /\ history = [n |-> 0, log |-> <<>>]

\* no function of the Table Parser has been called
NotCalled == [fn |-> "none", value |-> Null]

Init ==
  /\ ServiceInit
  /\ argument = <<>>
  /\ result = NotCalled

\* a promise of startSession or stopSession settled without an await before it
Settled(kind, k, ok, why) == [kind |-> kind, k |-> k, ok |-> ok, value |-> Null, why |-> why]

Finish(st0) ==
  \E st \in {runMicro(st0)} :
    /\ Commit(st)
    /\ lastEvt' = [NoEvt EXCEPT !.sent = st.sent, !.settled = st.settled]
    /\ history' = history
    /\ UNCHANGED <<argument, result>>

\* the caller invokes connect() (RealTimeService.connect)
connect(budget) ==
  /\ isConnected \/ CanOpenSock(Cur, budget)
  /\ Finish(connectIn(Cur, FALSE))

\* the caller invokes RealTimeService.disconnect()
disconnect ==
  Finish([disconnectIn(Cur) EXCEPT !.sessionActive = FALSE, !.currentSessionId = Null])

\* ws.onopen of socket s
SockOpen(s) ==
  /\ socks[s] = "connecting"
  /\ LET st1 == [Cur EXCEPT !.socks[s] = "open", !.reconnectAttempts = 0, !.autoRun = 0]
         waiting == {k \in StartIds : starts[k].pc = "awaitConnect" /\ starts[k].sock = s}
     IN Finish(IF waiting = {} THEN st1
               ELSE startSessionBody(st1, CHOOSE k \in waiting : TRUE))

\* the connection of socket s fails before it opened: ws.onerror, then ws.onclose
SockFail(s) ==
  /\ socks[s] \in {"connecting", "failing"}
  /\ LET st1 == [Cur EXCEPT
                   !.socks[s] = "closed",
                   !.starts = [k \in StartIds |->
                                 IF @[k].pc = "awaitConnect" /\ @[k].sock = s
                                 THEN [pc |-> "done", sock |-> Null]
                                 ELSE @[k]],
                   !.settled = {Settled("start", k, FALSE, "unable_to_connect") :
                                  k \in {i \in StartIds : starts[i].pc = "awaitConnect"
                                                            /\ starts[i].sock = s}}]
     IN Finish(onclose(st1))

\* the connection of the open socket s is gone: ws.onclose
SockClose(s) ==
  /\ socks[s] \in {"open", "closing"}
  /\ Finish(onclose([Cur EXCEPT !.socks[s] = "closed"]))

\* the setTimeout callback of ws.onclose
ReconnectTimer(budget) ==
  \E i \in 1..Len(timers) :
    /\ timers[i].kind = "reconnect"
    /\ CanFire(i)
    /\ isConnected \/ CanOpenSock(Cur, budget)
    /\ Finish(connectIn([Cur EXCEPT !.timers = RemoveAt(@, i),
                                    !.reconnectAttempts = @ + 1], TRUE))

StartTimer ==
  \E i \in 1..Len(timers) :
    /\ timers[i].kind = "start"
    /\ CanFire(i)
    /\ Finish(startTimeout([Cur EXCEPT !.timers = RemoveAt(@, i)], timers[i].k))

StopTimer ==
  \E i \in 1..Len(timers) :
    /\ timers[i].kind = "stop"
    /\ CanFire(i)
    /\ Finish(stopTimeout([Cur EXCEPT !.timers = RemoveAt(@, i)], timers[i].k))

\* a startSession without its check of sessionActive
startSession_Unguarded(budget, ids) ==
  \E k \in ids :
    /\ starts[k].pc = "idle"
    /\ \A j \in 1..(k - 1) : starts[j].pc # "idle"
    /\ IF ~isConnected
       THEN /\ CanOpenSock(Cur, budget)
            /\ LET st1 == connectIn(Cur, FALSE) IN
               Finish([st1 EXCEPT !.starts[k].pc = "awaitConnect", !.starts[k].sock = st1.ws])
       ELSE Finish(startSessionBody(Cur, k))

\* the caller invokes startSession(company, bill, callback); k numbers the invocations
startSession(budget, ids) ==
  \E k \in ids :
    /\ starts[k].pc = "idle"
    /\ \A j \in 1..(k - 1) : starts[j].pc # "idle"
    /\ IF sessionActive
       THEN Finish([Cur EXCEPT !.starts[k].pc = "done",
                               !.settled = {Settled("start", k, FALSE, "already_active")}])
       ELSE IF ~isConnected
       THEN /\ CanOpenSock(Cur, budget)
            /\ LET st1 == connectIn(Cur, FALSE) IN
               Finish([st1 EXCEPT !.starts[k].pc = "awaitConnect", !.starts[k].sock = st1.ws])
       ELSE Finish(startSessionBody(Cur, k))

\* the caller invokes stopSession(); j numbers the invocations
stopSession ==
  \E j \in StopIds :
    /\ stops[j].pc = "idle"
    /\ \A i \in 1..(j - 1) : stops[i].pc # "idle"
    /\ IF ~sessionActive
       THEN Finish([Cur EXCEPT !.stops[j].pc = "done",
                               !.settled = {Settled("stop", j, TRUE, "inactive")}])
       ELSE Finish(stopInvestigation(Cur, j))

Range(seq) == {seq[i] : i \in 1..Len(seq)}

\* ws.onmessage of an open socket with event.data = raw; the callback throws at
\* the calls numbered in thr; observe says whether lastEvt records the task
onmessageTask(raw, thr, observe) ==
  /\ \E s \in SockIds : socks[s] = "open"
  /\ UNCHANGED <<argument, result>>
  /\ LET outcome == onmessageOutcome(raw)
         m == IF outcome = "synth" THEN SynthError ELSE raw
     IN \E st \in {runMicro(IF outcome = "drop" THEN Cur ELSE handleMessage(Cur, m, thr))} :
        /\ Commit(st)
        /\ lastEvt' = IF observe
                      THEN [raw |-> raw, outcome |-> outcome,
                            msg |-> IF outcome = "drop" THEN NoMsg ELSE m,
                            before |-> Range(messageHandlers), invoked |-> st.invoked,
                            threw |-> st.threw, switchReached |-> st.switchReached,
                            delivered |-> st.delivered, sent |-> st.sent,
                            settled |-> st.settled]
                      ELSE [NoEvt EXCEPT !.sent = st.sent, !.settled = st.settled]

onmessageOf(raw, thr, observe) ==
  /\ onmessageTask(raw, thr, observe)
  /\ history' = history

\* a throw of the callback needs a callback and a Communication to call it with
CanThrow(raw, thr) ==
  \/ thr = {}
  \/ /\ communicationCallback # Null
     /\ onmessageOutcome(raw) # "drop"
     /\ LET m == IF onmessageOutcome(raw) = "synth" THEN SynthError ELSE raw
        IN commsFor(m) # <<>> \/ handlerThrows(m)

onmessage(payloads, throws, observe) ==
  \E raw \in payloads, thr \in throws :
    CanThrow(raw, thr) /\ onmessageOf(raw, thr, observe)

\* the session life cycle: the messages that start, stop and end a session
Next ==
  \/ connect(SessBudget)
  \/ disconnect
  \/ \E s \in SockIds : SockOpen(s)
  \/ \E s \in SockIds : SockFail(s)
  \/ \E s \in SockIds : SockClose(s)
  \/ ReconnectTimer(SessBudget)
  \/ StartTimer
  \/ StopTimer
  \/ startSession(SessBudget, StartIds)
  \/ stopSession
  \/ onmessage(SessionPayloads, {{}}, FALSE)

Spec == Init /\ [][Next]_vars

\* the connection life cycle alone, with room for the whole reconnect sequence
NextConn ==
  \/ connect(ConnBudget)
  \/ disconnect
  \/ \E s \in SockIds : SockOpen(s)
  \/ \E s \in SockIds : SockFail(s)
  \/ \E s \in SockIds : SockClose(s)
  \/ ReconnectTimer(ConnBudget)

SpecConn == Init /\ [][NextConn]_vars

\* validation and dispatch: every kind of payload, a callback that may throw,
\* over one connection
NextWire ==
  \/ connect(WireBudget)
  \/ \E s \in SockIds : SockOpen(s)
  \/ \E s \in SockIds : SockClose(s)
  \/ StartTimer
  \/ StopTimer
  \/ startSession(WireBudget, 1..WireStarts)
  \/ stopSession
  \/ onmessage(RawPayloads, {{}, {1}, {1, 2}}, TRUE)

SpecWire == Init /\ [][NextWire]_vars

\* reconnection under traffic: the sockets close only on their own, the transport
\* reconnects by timer or by connect(), and every received message is observed;
\* a timer that setTimeout has set does fire
NextReconnect ==
  \/ connect(SessBudget)
  \/ \E s \in SockIds : SockOpen(s)
  \/ \E s \in SockIds : SockClose(s)
  \/ ReconnectTimer(SessBudget)
  \/ StartTimer
  \/ startSession(SessBudget, StartIds)
  \/ onmessage(SessionPayloads, {{}}, TRUE)

SpecReconnect ==
  /\ Init
  /\ [][NextReconnect]_vars
  /\ WF_vars(StartTimer)
  /\ WF_vars(ReconnectTimer(SessBudget))

\* ------------------------------------------------------------ the orchestrator alone
\* what the orchestrator's handler can be given: any parsed value, objects with a
\* dispatched type and no usable timestamp among them, and for each dispatched
\* type the payload fields its handler reads
FeedMalformed ==
  NonObjects \cup MalformedObjects
  \cup {[NoMsg EXCEPT !.jt = "object", !.type = t, !.timestamp = ts] :
          t \in TerminalTypes \cup {"error", "tool_call_start"},
          ts \in {"absent", "nonstring"}}

TextFields == {Undef, NonString} \cup Texts

Plain(t) == [NoMsg EXCEPT !.jt = "object", !.type = t, !.timestamp = "ok"]

FeedValid ==
  {Plain(t) : t \in MsgTypes \cup {"unknown_type"}}
  \cup {[Plain("error") EXCEPT !.timestamp = "emptystr"]}
  \cup {[Plain("agent_communication") EXCEPT
           !.hasData = TRUE, !.data.type = ty, !.data.status = stt,
           !.data.simplified = si, !.data.fullContent = fc] :
          ty \in {"absent", "tool_call"}, stt \in {"absent", "failed"},
          si \in TextFields, fc \in TextFields}
  \cup {[Plain("tool_call_start") EXCEPT !.hasData = TRUE]}
  \cup {[Plain("tool_call_result") EXCEPT
           !.hasData = TRUE, !.data.success = ok, !.data.summary = su,
           !.data.badFindings = bf] :
          ok \in BOOLEAN, su \in {Undef} \cup Texts, bf \in BOOLEAN}
  \cup {[Plain("investigation_complete") EXCEPT !.hasData = TRUE]}
  \cup {[Plain("investigation_concluded") EXCEPT
           !.hasData = TRUE, !.data.table_available = ta, !.data.table_data = td,
           !.data.conclusion_message = cm] :
          ta \in BOOLEAN, td \in {Undef} \cup (0..MaxMembers), cm \in {Undef} \cup Texts}
  \cup {[Plain("investigation_error") EXCEPT !.error = e] : e \in TextFields}

FeedPayloads == FeedMalformed \cup FeedValid

\* the positions at which the callback throws, among the calls of one dispatch
FeedThrows == {{}, {1}, {2}, {1, 2}}

\* the most calls of the callback one dispatch of m can make: the Communications
\* of m's handler and the one of the catch block
MaxCalls(m) ==
  IF ~validateWebSocketMessage(m) THEN 0
  ELSE IF handlerThrows(m) THEN 1
  ELSE IF commsFor(m) = <<>> THEN 0
  ELSE Len(commsFor(m)) + 1

\* the handler registered as 'realtime_service' is called with m
Feed(payloads, throws) ==
  \E m \in payloads, thr \in throws :
    /\ thr # {} => communicationCallback # Null /\ thr \subseteq 1..MaxCalls(m)
    /\ \E r \in {handleWebSocketMessage(Cur, m, thr)} :
         /\ Commit(r.st)
         /\ lastEvt' = [raw |-> m, outcome |-> "feed", msg |-> m,
                        before |-> Range(messageHandlers), invoked |-> {RT},
                        threw |-> IF r.rtThrew THEN {RT} ELSE {},
                        switchReached |-> r.st.switchReached,
                        delivered |-> r.st.delivered, sent |-> {}, settled |-> {}]
         /\ history' = history
         /\ UNCHANGED <<argument, result>>

NextFeed ==
  \/ connect(FeedBudget)
  \/ \E s \in SockIds : SockOpen(s)
  \/ StartTimer
  \/ startSession(FeedBudget, 1..FeedStarts)
  \/ Feed(FeedPayloads, FeedThrows)

SpecFeed == Init /\ [][NextFeed]_vars

\* ------------------------------------------------------------ receipt order
\* valid messages whose handlers call the callback not at all, once, or twice
OrderPayloads ==
  {Plain("investigation_started"),
   Plain("error"),
   [Plain("tool_call_start") EXCEPT !.hasData = TRUE],
   [Plain("agent_communication") EXCEPT !.hasData = TRUE, !.data.fullContent = 1],
   [Plain("investigation_concluded") EXCEPT
      !.hasData = TRUE, !.data.table_available = TRUE, !.data.table_data = 1]}

\* the calls of the callback of one dispatch, tagged with the number of the message
Tagged(k, m, delivered) ==
  [i \in 1..Len(delivered) |-> [seq |-> k, msg |-> m, comm |-> delivered[i]]]

\* ws.onmessage, with the calls of the callback written to the history as they happen
onmessageLogged(payloads, throws) ==
  \E raw \in payloads, thr \in throws :
    /\ history.n < MaxReceived
    /\ CanThrow(raw, thr)
    /\ onmessageTask(raw, thr, TRUE)
    /\ history' = [n |-> history.n + 1,
                   log |-> history.log \o Tagged(history.n + 1, raw, lastEvt'.delivered)]

NextOrder ==
  \/ connect(OrderBudget)
  \/ \E s \in SockIds : SockOpen(s)
  \/ StartTimer
  \/ startSession(OrderBudget, 1..OrderStarts)
  \/ onmessageLogged(OrderPayloads, {{}, {1}})

SpecOrder == Init /\ [][NextOrder]_vars

\* ------------------------------------------------------------ Table Parser
\* A text is a sequence of lines. A line is one of
\*   header          | Congress Member | Chamber | State/District | Involvement Rank | Reason |
\*   header_lc       | congress member | chamber | state | involvement rank (1 = most) | reason |
\*   sep             |---|---|---|---|---|
\*   blank           (empty)
\*   prose           Notes follow.
\*   row             | Jane Doe (D) | House | MD-03 | <rank cell> | sponsor |
\*   row_conclusion  | Jane Doe (D) | House | MD-03 | 1 | spoke at the conclusion of the debate |
\*   row_cm          | Jane Doe (D) | House | MD-03 | 1 | the Congress Member who wrote it |
\*   row3            | Jane Doe (D) | House | MD-03 |
\*   pipe1           | see the notes |
\* rank is the number the first run of digits in the line's fourth cell stands for,
\* Undef when that cell has no digit.
RankCells == {Undef} \cup (0..MaxRank)

ParserLines ==
  {[k |-> kd, rank |-> Undef] : kd \in {"header", "sep", "blank", "prose", "row3", "pipe1"}}
  \cup {[k |-> "header_lc", rank |-> 1]}
  \cup {[k |-> "row", rank |-> r] : r \in RankCells}
  \cup {[k |-> "row_conclusion", rank |-> 1], [k |-> "row_cm", rank |-> 1]}

ParserTexts == UNION {[1..n -> ParserLines] : n \in 0..MaxLines}

\* line.includes('|')
includesPipe(l) == l.k \notin {"blank", "prose"}

\* the header test of detectDualTables and extractTableByOrder, on the lower-cased line
isTableHeader(l) == l.k \in {"header", "header_lc"}

\* line.includes('Congress Member'), case-sensitive
includesCongressMember(l) == l.k \in {"header", "row_cm"}

\* the separator tests: /^\|[\s\-|]+\|$/, and nothing left after removing | - :
isSeparator(l) == l.k = "sep"

\* line.split('|').length >= 5
splitsInFive(l) ==
  l.k \in {"header", "header_lc", "sep", "row", "row_conclusion", "row_cm", "row3"}

\* line.trim() === ''
isBlank(l) == l.k = "blank"

\* the end-of-table test of extractTableSection: an empty line, '---' without a
\* pipe, 'interpretive notes' or 'conclusion' in the lower-cased line
endsSection(l) == l.k \in {"blank", "row_conclusion"}

\* the number of non-empty cells of row.split('|')
cellCount(l) ==
  CASE l.k = "blank" -> 0
    [] l.k \in {"prose", "pipe1"} -> 1
    [] l.k = "row3" -> 3
    [] OTHER -> 5

\* the entries of tableIndicators found in the lower-cased line
indicatorsIn(l) ==
  CASE l.k = "header" -> {"Congress Member", "Chamber", "State/District", "Involvement Rank", "Reason"}
    [] l.k = "header_lc" -> {"Congress Member", "Chamber", "Involvement Rank", "Reason"}
    [] l.k = "sep" -> {"|---|"}
    [] l.k = "row_cm" -> {"Congress Member"}
    [] OTHER -> {}

\* detectDualTables(content)
detectDualTables(content) ==
  Cardinality({i \in 1..Len(content) : isTableHeader(content[i])}) = 2

\* the loop of extractTableByOrder from line i on: the tables found, each the
\* sequence of the numbers of its lines
RECURSIVE tablesFrom(_, _, _, _, _)
tablesFrom(content, i, tablesFound, currentTableLines, inTable) ==
  IF i > Len(content)
  THEN IF inTable /\ currentTableLines # <<>>
       THEN Append(tablesFound, currentTableLines)
       ELSE tablesFound
  ELSE LET line == content[i] IN
       IF isTableHeader(line)
       THEN tablesFrom(content, i + 1,
                       IF inTable /\ currentTableLines # <<>>
                       THEN Append(tablesFound, currentTableLines) ELSE tablesFound,
                       <<i>>, TRUE)
       ELSE IF ~inTable
       THEN tablesFrom(content, i + 1, tablesFound, currentTableLines, inTable)
       ELSE IF includesPipe(line) /\ (isSeparator(line) \/ splitsInFive(line))
       THEN tablesFrom(content, i + 1, tablesFound, Append(currentTableLines, i), inTable)
       ELSE IF (isBlank(line) \/ ~includesPipe(line)) /\ Len(currentTableLines) > 2
       THEN tablesFrom(content, i + 1, Append(tablesFound, currentTableLines), <<>>, FALSE)
       ELSE tablesFrom(content, i + 1, tablesFound, currentTableLines, inTable)

\* extractTableByOrder(content, tableNumber): the line numbers of the table, <<>> for null
extractTableByOrder(content, tableNumber) ==
  LET tablesFound == tablesFrom(content, 1, <<>>, <<>>, FALSE) IN
  IF tableNumber <= Len(tablesFound) THEN tablesFound[tableNumber] ELSE <<>>

\* detectTableInMessage(content): at least 3 of the indicators
detectTableInMessage(content) ==
  Cardinality(UNION {indicatorsIn(content[i]) : i \in 1..Len(content)}) >= 3

\* the loop of extractTableSection from line i on: [tableStart, tableEnd), Null for -1
RECURSIVE sectionFrom(_, _, _)
sectionFrom(content, i, tableStart) ==
  IF i > Len(content) THEN [tableStart |-> tableStart, tableEnd |-> Null]
  ELSE LET line == content[i]
           start == IF includesCongressMember(line) /\ includesPipe(line) THEN i ELSE tableStart
       IN IF start # Null /\ isSeparator(line)
          THEN sectionFrom(content, i + 1, start)
          ELSE IF start # Null /\ i > start + 1 /\ endsSection(line)
          THEN [tableStart |-> start, tableEnd |-> i]
          ELSE sectionFrom(content, i + 1, start)

\* extractTableSection(content): the line numbers of the section, <<>> for null
extractTableSection(content) ==
  LET b == sectionFrom(content, 1, Null)
      last == IF b.tableEnd = Null THEN Len(content) ELSE b.tableEnd - 1
  IN IF b.tableStart = Null THEN <<>>
     ELSE [j \in 1..(last - b.tableStart + 1) |-> b.tableStart + j - 1]

\* parseRank(rankCell): Undef for null
parseRank(l) == l.rank

\* parseTableRow(row) for the line numbered i: a member (the line it came from and
\* its rank; the other fields are cut from the cells), or <<>> for null
parseTableRow(l, i) ==
  IF cellCount(l) < 5 THEN <<>>
  ELSE IF parseRank(l) = Undef THEN <<>>
  ELSE <<[row |-> i, rank |-> parseRank(l)]>>

\* parseTableRows(tableSection), the section given by its line numbers
RECURSIVE parseTableRows(_, _)
parseTableRows(content, section) ==
  IF section = <<>> THEN <<>>
  ELSE LET i == Head(section)
           l == content[i]
       IN (IF isBlank(l) \/ includesCongressMember(l) \/ isSeparator(l)
           THEN <<>>
           ELSE parseTableRow(l, i))
          \o parseTableRows(content, Tail(section))

\* what parse returns for null; in a result, sides says whether the object has the
\* properties alignedMembers and opposedMembers
NoTable ==
  [found |-> FALSE, members |-> <<>>, totalMembers |-> 0, hasDualTables |-> FALSE,
   sides |-> FALSE, alignedMembers |-> <<>>, opposedMembers |-> <<>>]

\* a parseDualTables whose members are the first table's alone
parseDualTables_FirstTableOnly(content) ==
  LET alignedMembers == parseTableRows(content, extractTableByOrder(content, 1))
      opposedMembers == parseTableRows(content, extractTableByOrder(content, 2))
      allMembers == alignedMembers \o opposedMembers
  IN IF allMembers = <<>> THEN NoTable
     ELSE [found |-> TRUE, members |-> alignedMembers, totalMembers |-> Len(allMembers),
           hasDualTables |-> TRUE, sides |-> TRUE, alignedMembers |-> alignedMembers,
           opposedMembers |-> opposedMembers]

\* parseDualTables(messageContent)
parseDualTables(content) ==
  LET alignedMembers == parseTableRows(content, extractTableByOrder(content, 1))
      opposedMembers == parseTableRows(content, extractTableByOrder(content, 2))
      allMembers == alignedMembers \o opposedMembers
  IN IF allMembers = <<>> THEN NoTable
     ELSE [found |-> TRUE, members |-> allMembers, totalMembers |-> Len(allMembers),
           hasDualTables |-> TRUE, sides |-> TRUE, alignedMembers |-> alignedMembers,
           opposedMembers |-> opposedMembers]

parseSingleTable_KeepEmpty(content) ==
  IF ~detectTableInMessage(content) THEN NoTable
  ELSE LET members == parseTableRows(content, extractTableSection(content)) IN
       [found |-> TRUE, members |-> members, totalMembers |-> Len(members),
        hasDualTables |-> FALSE, sides |-> FALSE, alignedMembers |-> <<>>,
             opposedMembers |-> <<>>]

\* parseSingleTable(messageContent)
parseSingleTable(content) ==
  IF ~detectTableInMessage(content) THEN NoTable
  ELSE LET members == parseTableRows(content, extractTableSection(content)) IN
       IF members = <<>> THEN NoTable
       ELSE [found |-> TRUE, members |-> members, totalMembers |-> Len(members),
             hasDualTables |-> FALSE, sides |-> FALSE, alignedMembers |-> <<>>,
             opposedMembers |-> <<>>]

\* parseOrchestratorTable(messageContent)
parseOrchestratorTable(content) ==
  IF detectDualTables(content) THEN parseDualTables(content) ELSE parseSingleTable(content)

\* the caller has a text
InitParse ==
  /\ ServiceInit
  /\ argument \in ParserTexts
  /\ result = NotCalled

\* the caller calls parseCongressTable(argument)
parse ==
  /\ result.fn = "none"
  /\ result' = [fn |-> "parse", value |-> parseOrchestratorTable(argument)]
  /\ UNCHANGED <<socks, ws, reconnectAttempts, isManualClose, messageHandlers, sessionId,
                 timers, sessionActive, currentSessionId, communicationCallback, starts,
                 stops, nConnects, autoRun, manualDown, faulty, lastEvt, history, argument>>

SpecParse == InitParse /\ [][parse]_vars

\* the table numbers parseDualTables asks for
TableNumbers == 1..2

\* parseDualTables extracts table tableNumber of the text
extract ==
  /\ result.fn = "none"
  /\ \E tableNumber \in TableNumbers :
       result' = [fn |-> "extract",
                  value |-> [tableNumber |-> tableNumber,
                             lines |-> extractTableByOrder(argument, tableNumber)]]
  /\ UNCHANGED <<socks, ws, reconnectAttempts, isManualClose, messageHandlers, sessionId,
                 timers, sessionActive, currentSessionId, communicationCallback, starts,
                 stops, nConnects, autoRun, manualDown, faulty, lastEvt, history, argument>>

SpecExtract == InitParse /\ [][extract]_vars

\* ================================================================ name cells
\* A name cell is the first cell of a data row after trim(): a non-empty sequence
\* of tokens that neither starts nor ends with white space.
\*   "w"            a run of characters without parenthesis, dash and party letter
\*                  that starts and ends with a non-blank ("Joe Manchin", "WY")
\*   " "            a run of white space
\*   "(" ")" "-"    that character
\*   "D" "R"        that party letter
PartyCodes == {"D", "R"}

NameTokens == {"w", " ", "(", ")", "-"} \cup PartyCodes

NameCells ==
  {c \in UNION {[1..n -> NameTokens] : n \in 1..MaxNameCell} :
     /\ c[1] # " " /\ c[Len(c)] # " "
     /\ \A i \in 1..(Len(c) - 1) : c[i] = c[i + 1] => c[i] \notin {"w", " "}}

Least(S) == CHOOSE x \in S : \A y \in S : x <= y

\* String.prototype.trim()
trim(s) ==
  LET solid == {i \in 1..Len(s) : s[i] # " "} IN
  IF solid = {} THEN <<>>
  ELSE SubSeq(s, Least(solid), CHOOSE x \in solid : \A y \in solid : y <= x)

\* the lengths k of the group (.+?) with which /^(.+?)\s*\(([RDI])\)$/ matches
simplePartyMatch(nameCell) ==
  LET n == Len(nameCell) IN
  {k \in 1..(n - 3) :
     /\ \A j \in (k + 1)..(n - 3) : nameCell[j] = " "
     /\ nameCell[n - 2] = "(" /\ nameCell[n - 1] \in PartyCodes /\ nameCell[n] = ")"}

\* the pairs <<k, m>> with which /^(.+?)\s*\(([RDI])-/ matches: the group (.+?) is
\* the first k tokens, the white space ends at token m, the party is token m + 2
partyStateMatch(nameCell) ==
  LET n == Len(nameCell) IN
  {km \in (1..n) \X (1..n) :
     /\ km[1] <= km[2] /\ km[2] + 3 <= n
     /\ \A j \in (km[1] + 1)..km[2] : nameCell[j] = " "
     /\ nameCell[km[2] + 1] = "(" /\ nameCell[km[2] + 2] \in PartyCodes
     /\ nameCell[km[2] + 3] = "-"}

\* parseNameForParty(nameCell); party is <<>> for undefined
parseNameForParty(nameCell) ==
  IF simplePartyMatch(nameCell) # {}
  THEN [name |-> trim(SubSeq(nameCell, 1, Least(simplePartyMatch(nameCell)))),
        party |-> <<nameCell[Len(nameCell) - 1]>>]
  ELSE IF partyStateMatch(nameCell) # {}
  THEN LET k == Least({km[1] : km \in partyStateMatch(nameCell)})
           m == CHOOSE m \in 1..Len(nameCell) : <<k, m>> \in partyStateMatch(nameCell)
       IN [name |-> trim(SubSeq(nameCell, 1, k)), party |-> <<nameCell[m + 2]>>]
  ELSE [name |-> trim(nameCell), party |-> <<>>]

\* expandParty(partyCode)
expandParty(partyCode) ==
  CASE partyCode = "R" -> "Republican"
    [] partyCode = "D" -> "Democrat"
    [] partyCode = "I" -> "Independent"
    [] OTHER -> partyCode

\* the name and party fields parseTableRow gives the member, l.597-604
memberName(nameCell) ==
  LET nameInfo == parseNameForParty(nameCell) IN
  [name |-> nameInfo.name,
   party |-> IF nameInfo.party # <<>> THEN <<expandParty(nameInfo.party[1])>> ELSE <<>>]

\* the caller has a name cell
InitName ==
  /\ ServiceInit
  /\ argument \in NameCells
  /\ result = NotCalled

\* parseTableRow parses the name cell of its row
parseName ==
  /\ result.fn = "none"
  /\ result' = [fn |-> "parseName", value |-> memberName(argument)]
  /\ UNCHANGED <<socks, ws, reconnectAttempts, isManualClose, messageHandlers, sessionId,
                 timers, sessionActive, currentSessionId, communicationCallback, starts,
                 stops, nConnects, autoRun, manualDown, faulty, lastEvt, history, argument>>

SpecName == InitName /\ [][parseName]_vars

\* ================================================================ state cells
\* A state/district cell is the third cell of a data row after trim(): a non-empty
\* sequence of characters that neither starts nor ends with white space.
\*   "M" "D"   that upper-case letter        "0" "3"   that digit
\*   "x"       a character that is no upper-case letter, digit, dash or blank
\*   "-" " "   that character
UpperCase == {"M", "D"}

Digits == {"0", "3"}

StateChars == UpperCase \cup Digits \cup {"x", "-", " "}

StateCells ==
  {c \in UNION {[1..n -> StateChars] : n \in 1..MaxStateCell} : c[1] # " " /\ c[Len(c)] # " "}

districtMatch_Unanchored(cell) ==
  IF /\ Len(cell) >= 4
     /\ cell[1] \in UpperCase /\ cell[2] \in UpperCase /\ cell[3] = "-"
     /\ cell[4] \in Digits
  THEN <<SubSeq(cell, 1, 2),
         SubSeq(cell, 4, CHOOSE e \in 4..Len(cell) :
                           /\ \A j \in 4..e : cell[j] \in Digits
                           /\ e < Len(cell) => cell[e + 1] \notin Digits)>>
  ELSE <<>>

\* stateDistrictCell.match(/^([A-Z]{2})-(\d+)$/): the two groups, <<>> for null
districtMatch(cell) ==
  IF /\ Len(cell) >= 4
     /\ cell[1] \in UpperCase /\ cell[2] \in UpperCase /\ cell[3] = "-"
     /\ \A j \in 4..Len(cell) : cell[j] \in Digits
  THEN <<SubSeq(cell, 1, 2), SubSeq(cell, 4, Len(cell))>>
  ELSE <<>>

\* stateDistrictCell.match(/^([A-Z]{2})$/): the group, <<>> for null
stateMatch(cell) ==
  IF Len(cell) = 2 /\ cell[1] \in UpperCase /\ cell[2] \in UpperCase
  THEN <<SubSeq(cell, 1, 2)>>
  ELSE <<>>

\* parseStateDistrict(stateDistrictCell); district is <<>> for undefined
parseStateDistrict(stateDistrictCell) ==
  IF districtMatch(stateDistrictCell) # <<>>
  THEN [state |-> districtMatch(stateDistrictCell)[1],
        district |-> districtMatch(stateDistrictCell)[2]]
  ELSE IF stateMatch(stateDistrictCell) # <<>>
  THEN [state |-> stateMatch(stateDistrictCell)[1], district |-> <<>>]
  ELSE [state |-> stateDistrictCell, district |-> <<>>]

\* the caller has a state/district cell
InitState ==
  /\ ServiceInit
  /\ argument \in StateCells
  /\ result = NotCalled

\* parseTableRow parses the state/district cell of its row
parseState ==
  /\ result.fn = "none"
  /\ result' = [fn |-> "parseState", value |-> parseStateDistrict(trim(argument))]
  /\ UNCHANGED <<socks, ws, reconnectAttempts, isManualClose, messageHandlers, sessionId,
                 timers, sessionActive, currentSessionId, communicationCallback, starts,
                 stops, nConnects, autoRun, manualDown, faulty, lastEvt, history, argument>>

SpecState == InitState /\ [][parseState]_vars

\* ================================================================ digest
\* The members of a parsed table as formatTableResults reads them: member i of the
\* table is [row |-> i, rank |-> its rank].
TableMembers ==
  UNION {{[i \in 1..n |-> [row |-> i, rank |-> ranks[i]]] : ranks \in [1..n -> 1..MaxDigestRank]} :
           n \in 0..MaxDigestMembers}

\* one member put in its place in a list sorted by (a, b) => a.rank - b.rank, behind
\* the members of equal rank
RECURSIVE insertByRank(_, _)
insertByRank(sorted, member) ==
  IF sorted = <<>> THEN <<member>>
  ELSE IF member.rank - Head(sorted).rank < 0 THEN <<member>> \o sorted
  ELSE <<Head(sorted)>> \o insertByRank(Tail(sorted), member)

\* members.sort((a, b) => a.rank - b.rank)
RECURSIVE sortByRank(_)
sortByRank(members) ==
  IF members = <<>> THEN <<>>
  ELSE insertByRank(sortByRank(SubSeq(members, 1, Len(members) - 1)), members[Len(members)])

\* array.slice(0, end)
slice(array, end) == SubSeq(array, 1, IF Len(array) < end THEN Len(array) ELSE end)

topMembers_Unsorted(members) == slice(members, TopCount)

\* topMembers = parsedTable.members.sort(...).slice(0, 10)
topMembers(members) == slice(sortByRank(members), TopCount)

\* formatTableResults(parsedTable): the total it prints and the member entries it
\* prints, in the order of the text
formatTableResults(members) == [total |-> Len(members), entries |-> topMembers(members)]

\* the enrichment pass has a parsed table
InitDigest ==
  /\ ServiceInit
  /\ argument \in TableMembers
  /\ result = NotCalled

\* checkForTableContent regenerates fullContent
format ==
  /\ result.fn = "none"
  /\ result' = [fn |-> "format", value |-> formatTableResults(argument)]
  /\ UNCHANGED <<socks, ws, reconnectAttempts, isManualClose, messageHandlers, sessionId,
                 timers, sessionActive, currentSessionId, communicationCallback, starts,
                 stops, nConnects, autoRun, manualDown, faulty, lastEvt, history, argument>>

SpecDigest == InitDigest /\ [][format]_vars

\* ================================================================ bill id
\* A text as extractBillId reads it, character by character:
\*   "S" "H"   that letter, in either case       "R"   another letter
\*   "3"       a digit                            " "   a white space character
\*   "." "-"   that character
BillChars == {"S", "H", "R", "3", " ", ".", "-"}

BillTexts == UNION {[1..n -> BillChars] : n \in 0..MaxBillText}

\* the end of the longest run of characters of class cs that starts at position p
\* (p - 1 when there is none)
runEnd(content, p, cs) ==
  CHOOSE e \in (p - 1)..Len(content) :
    /\ \A j \in p..e : content[j] \in cs
    /\ e < Len(content) => content[e + 1] \notin cs

\* the end of the match of /[SH]\.?\s*\d+[-\s]\d+/i that starts at position p, 0
\* when there is none
billMatchAt(content, p) ==
  IF content[p] \notin {"S", "H"} THEN 0
  ELSE LET afterDot == IF p < Len(content) /\ content[p + 1] = "." THEN p + 1 ELSE p
           afterSpace == runEnd(content, afterDot + 1, {" "})
           afterNumber == runEnd(content, afterSpace + 1, {"3"})
           afterDash == afterNumber + 1
           afterCongress == runEnd(content, afterDash + 1, {"3"})
       IN IF /\ afterNumber > afterSpace
             /\ afterDash <= Len(content) /\ content[afterDash] \in {"-", " "}
             /\ afterCongress > afterDash
          THEN afterCongress ELSE 0

\* extractBillId(content): the first match, <<>> for undefined
extractBillId(content) ==
  LET matches == {p \in 1..Len(content) : billMatchAt(content, p) # 0} IN
  IF matches = {} THEN <<>>
  ELSE SubSeq(content, Least(matches), billMatchAt(content, Least(matches)))

\* the parser has a text with a table in it
InitBill ==
  /\ ServiceInit
  /\ argument \in BillTexts
  /\ result = NotCalled

\* parseDualTables / parseSingleTable fill billId of the table they return
billId ==
  /\ result.fn = "none"
  /\ result' = [fn |-> "billId", value |-> extractBillId(argument)]
  /\ UNCHANGED <<socks, ws, reconnectAttempts, isManualClose, messageHandlers, sessionId,
                 timers, sessionActive, currentSessionId, communicationCallback, starts,
                 stops, nConnects, autoRun, manualDown, faulty, lastEvt, history, argument>>

SpecBill == InitBill /\ [][billId]_vars

\* ================================================================ claims
StartTimerPending(k) == \E i \in 1..Len(timers) : timers[i].kind = "start" /\ timers[i].k = k

StartSettled(evt, k, ok) == \E e \in evt.settled : e.kind = "start" /\ e.k = k /\ e.ok = ok

\* startSession invocation k is made in this step
StartCalled(k) == starts[k].pc = "idle" /\ starts'[k].pc # "idle"

\* C1: startSession called while a session is active is rejected, sends no
\* start_investigation request, and leaves isSessionActive(), the current session id
\* and the registered callback as they were.
C1_StartWhileActiveRejected ==
  [][\A k \in StartIds :
       sessionActive /\ StartCalled(k) =>
         /\ \E e \in lastEvt'.settled :
              e.kind = "start" /\ e.k = k /\ ~e.ok /\ e.why = "already_active"
         /\ lastEvt'.sent = {}
         /\ UNCHANGED <<sessionActive, currentSessionId, communicationCallback>>]_vars

C1_Witness ==
  /\ sessionActive
  /\ communicationCallback # Null
  /\ \E e \in lastEvt.settled : e.kind = "start" /\ e.why = "already_active"

\* C2: at most one session exists at a time, counted from the moment startSession
\* sends start_investigation: no second startSession gets as far as sending its
\* request while an earlier one still awaits its acknowledgement.
C2_OnePendingStart == Cardinality({k \in StartIds : starts[k].pc = "awaitStart"}) <= 1

\* C3: after an unexpected close, automatic reconnects are attempted at most
\* maxReconnectAttempts times in a row (with no open event and no connect() by the
\* caller in between).
C3_AtMostFiveInARow == autoRun <= maxReconnectAttempts

\* C4: after disconnect() has returned, no socket is opened until the caller
\* invokes connect() again.
C4_NoSocketAfterDisconnect ==
  [][manualDown /\ manualDown' => nConnects' = nConnects]_vars

Valid(m) == hasStringType(m) /\ hasStringTimestamp(m)

\* C5: no handler is invoked with, and the orchestrator's switch is never reached
\* for, a message from the socket that lacks a string type or a string timestamp.
C5_MalformedNeverDispatched ==
  /\ lastEvt.outcome = "dispatch" => Valid(lastEvt.raw) /\ lastEvt.msg = lastEvt.raw
  /\ lastEvt.invoked # {} \/ lastEvt.switchReached => Valid(lastEvt.msg)
  /\ lastEvt.outcome = "drop" => lastEvt.invoked = {} /\ ~lastEvt.switchReached

C5_Witness ==
  /\ lastEvt.raw.jt = "object"
  /\ lastEvt.raw.type = "agent_communication"
  /\ lastEvt.raw.timestamp = "absent"
  /\ lastEvt.outcome = "drop"
  /\ Len(messageHandlers) >= 2

ParseableJson(raw) ==
  raw.jt \in {"null", "number", "string", "boolean", "array", "object"}

\* C6: a payload that parses as JSON but is not an object with string type and
\* timestamp is dropped, with no handler invoked and no synthesized error message;
\* an error message is synthesized only for a payload that is not parseable JSON.
C6_ParseableMalformedDropped ==
  /\ ParseableJson(lastEvt.raw) /\ ~Valid(lastEvt.raw) =>
       lastEvt.outcome = "drop" /\ lastEvt.invoked = {}
  /\ lastEvt.outcome = "synth" => lastEvt.raw.jt = "garbage"

\* C7: a handler that throws during a dispatch is removed from the registry and is
\* not invoked for any later message, and every handler registered when a message
\* is dispatched is invoked with it, whether or not another one threw.
C7_FaultyHandlerRemoved ==
  /\ lastEvt.threw \cap Range(messageHandlers) = {}
  /\ lastEvt.invoked \cap (faulty \ lastEvt.threw) = {}
  /\ lastEvt.outcome \in {"dispatch", "synth"} => lastEvt.invoked = lastEvt.before

C7_Witness ==
  /\ lastEvt.threw = {RT}
  /\ \E h \in lastEvt.invoked \ lastEvt.threw : h.id = "start_handler"
  /\ RT \notin Range(messageHandlers)

\* C8: a pending startInvestigation resolves with the session id it generated as
\* soon as an investigation_started, agent_communication or tool_call_start message
\* tagged with that id is dispatched; one tagged with another id does not resolve it.
C8_AckResolves ==
  [][\A k \in StartIds, m \in SessionPayloads :
       /\ starts[k].pc = "awaitStart"
       /\ m.type \in StartAckTypes
       /\ onmessageOf(m, {}, FALSE)
       => IF m.sessionId = k
          THEN \E e \in lastEvt'.settled :
                 e.kind = "start" /\ e.k = k /\ e.ok /\ e.value = k
          ELSE starts'[k].pc = "awaitStart"]_vars

\* C9: a pending startInvestigation rejects when an investigation_error message, or
\* an error message mentioning the investigation, is dispatched, and startSession
\* then leaves the session inactive with no callback registered.
C9_ErrorRejects ==
  [][\A k \in StartIds, m \in SessionPayloads :
       /\ starts[k].pc = "awaitStart"
       /\ m.type = "investigation_error" \/ (m.type = "error" /\ m.text = "investigation")
       /\ onmessageOf(m, {}, FALSE)
       => /\ StartSettled(lastEvt', k, FALSE)
          /\ ~sessionActive'
          /\ communicationCallback' = Null]_vars

\* C10: when the 30-second timer of a pending startInvestigation fires, the call
\* resolves if the socket is open and a session id exists and rejects with a
\* timeout error if the socket is not open; a pending call always has its timer
\* ahead of it, so it is settled no later than the timer.
C10_TimeoutSettles ==
  /\ [](\A k \in StartIds : starts[k].pc = "awaitStart" => StartTimerPending(k))
  /\ [][\A k \in StartIds :
          /\ starts[k].pc = "awaitStart"
          /\ StartTimerPending(k) /\ ~StartTimerPending(k)'
          => /\ starts'[k].pc = "done"
             /\ isConnected /\ sessionId # Null =>
                  \E e \in lastEvt'.settled : e.kind = "start" /\ e.k = k /\ e.ok
             /\ ~isConnected =>
                  \E e \in lastEvt'.settled :
                    e.kind = "start" /\ e.k = k /\ ~e.ok /\ e.why = "timeout"]_vars

C10_Witness ==
  /\ ~isConnected
  /\ \E e \in lastEvt.settled : e.kind = "start" /\ ~e.ok /\ e.why = "timeout"

StopTimerPending(j) == \E i \in 1..Len(timers) : timers[i].kind = "stop" /\ timers[i].k = j

StopSettled(evt, j, ok) == \E e \in evt.settled : e.kind = "stop" /\ e.k = j /\ e.ok = ok

\* C11: stopInvestigation sends a stop_investigation request for the current session
\* id; while it is pending, an investigation_stopped message with that id resolves it
\* and clears the transport's session id, an error message rejects it, and its
\* 5-second timer rejects it; a rejection leaves the transport's session id alone.
C11_StopSettles ==
  [][/\ \A j \in StopIds :
          stops[j].pc = "idle" /\ stops'[j].pc = "awaitStop" =>
            lastEvt'.sent = {[type |-> "stop_investigation", sessionId |-> sessionId]}
     /\ \A j \in StopIds, m \in SessionPayloads :
          stops[j].pc = "awaitStop" /\ onmessageOf(m, {}, FALSE) =>
            /\ m.type = "investigation_stopped" /\ m.sessionId = sessionId =>
                 StopSettled(lastEvt', j, TRUE) /\ sessionId' = Null
            /\ m.type = "error" =>
                 StopSettled(lastEvt', j, FALSE) /\ sessionId' = sessionId
     /\ \A j \in StopIds :
          stops[j].pc = "awaitStop" /\ StopTimerPending(j) /\ ~StopTimerPending(j)' =>
            StopSettled(lastEvt', j, FALSE) /\ sessionId' = sessionId]_vars

\* C12: the orchestrator's handler never throws to the transport, whatever message it
\* is given and whatever the callback does, so it is never removed from the registry
C12_HandlerNeverThrows ==
  /\ RT \notin lastEvt.threw
  /\ Registered(messageHandlers, RT)

\* C13: feeding the orchestrator a structurally malformed message (no type or no
\* timestamp, or not an object) does not raise to the caller, delivers no
\* Communication and leaves the session state unchanged
C13_MalformedFeedIgnored ==
  [][lastEvt'.outcome = "feed" /\ ~Valid(lastEvt'.raw) =>
       /\ lastEvt'.threw = {}
       /\ lastEvt'.delivered = <<>>
       /\ UNCHANGED <<sessionActive, currentSessionId, communicationCallback>>]_vars

C13_Witness ==
  /\ lastEvt.outcome = "feed"
  /\ lastEvt.raw.type = "investigation_complete"
  /\ lastEvt.raw.timestamp = "absent"
  /\ sessionActive
  /\ communicationCallback # Null

\* the three fields of the session state of the orchestrator
SessionFields == <<sessionActive, currentSessionId, communicationCallback>>

\* the types handleWebSocketMessage has a case for
DispatchedTypes == {"agent_communication", "tool_call_start", "tool_call_result",
                    "investigation_complete", "investigation_concluded",
                    "investigation_error", "error"}

\* C14: a valid message whose type has no handler (investigation_started,
\* investigation_stopped and connection_established among them) causes no
\* Communication and leaves isSessionActive(), the session id and the callback alone
C14_UndispatchedTypeIgnored ==
  [][/\ lastEvt'.outcome = "feed"
     /\ Valid(lastEvt'.raw)
     /\ lastEvt'.raw.type \notin DispatchedTypes
     => /\ lastEvt'.delivered = <<>>
        /\ lastEvt'.threw = {}
        /\ UNCHANGED SessionFields]_vars

C14_Witness ==
  /\ lastEvt.outcome = "feed"
  /\ lastEvt.raw.type = "investigation_stopped"
  /\ lastEvt.raw.timestamp = "ok"
  /\ lastEvt.switchReached
  /\ sessionActive
  /\ communicationCallback # Null

\* C15: after the orchestrator has handled investigation_complete,
\* investigation_concluded or investigation_error, isSessionActive() is false,
\* with or without a callback and whatever the payload
C15_TerminalEventEndsSession ==
  /\ lastEvt.outcome = "feed"
  /\ Valid(lastEvt.raw)
  /\ lastEvt.raw.type \in {"investigation_complete", "investigation_concluded",
                           "investigation_error"}
  => ~sessionActive

\* a session was active, and the handler of investigation_error threw on its
\* payload before the callback was reached
C15_Witness ==
  /\ lastEvt.outcome = "feed"
  /\ lastEvt.raw.type = "investigation_error"
  /\ lastEvt.raw.error = NonString
  /\ lastEvt.raw.timestamp = "ok"
  /\ starts[1].pc = "done"
  /\ currentSessionId # Null
  /\ ~sessionActive

\* C16: handling a message of type error delivers one failed Communication when a
\* callback is registered (after it only the critical-error one, when the callback
\* threw), none otherwise, and leaves isSessionActive(), the session id and the
\* callback as they were
C16_WireErrorKeepsSession ==
  [][/\ lastEvt'.outcome = "feed"
     /\ Valid(lastEvt'.raw)
     /\ lastEvt'.raw.type = "error"
     => /\ UNCHANGED SessionFields
        /\ communicationCallback = Null => lastEvt'.delivered = <<>>
        /\ communicationCallback # Null =>
             /\ Len(lastEvt'.delivered) >= 1
             /\ lastEvt'.delivered[1].src = "error"
             /\ lastEvt'.delivered[1].status = "failed"
             /\ \/ Len(lastEvt'.delivered) = 1
                \/ /\ Len(lastEvt'.delivered) = 2
                   /\ lastEvt'.delivered[2] = CriticalError]_vars

C16_Witness ==
  /\ lastEvt.outcome = "feed"
  /\ lastEvt.raw.type = "error"
  /\ lastEvt.raw.timestamp = "ok"
  /\ Len(lastEvt.delivered) = 1
  /\ sessionActive
  /\ currentSessionId # Null

\* the callback returned normally from every call of the last dispatch
CallbackReturned == \A i \in 1..Len(lastEvt.delivered) : lastEvt.delivered[i] # CriticalError

\* C17: for an investigation_concluded message whose payload carries table_data the
\* orchestrator delivers a table_results Communication for exactly the members of
\* that table and then a summary message, the Table Parser not being used; with no
\* table_data it delivers the summary message only
C17_ConcludedTableThenSummary ==
  /\ lastEvt.outcome = "feed"
  /\ Valid(lastEvt.raw)
  /\ lastEvt.raw.type = "investigation_concluded"
  /\ communicationCallback # Null
  /\ CallbackReturned
  => LET d == lastEvt.raw.data
         out == lastEvt.delivered
     IN IF d.table_data # Undef
        THEN /\ Len(out) = 2
             /\ out[1].ctype = "table_results"
             /\ out[1].n = d.table_data
             /\ out[1].fullContent = "JSON.stringify(data.table_data)"
             /\ out[2].ctype = "message"
        ELSE /\ Len(out) = 1
             /\ out[1].ctype = "message"

\* C18: whichever wire message produced it, a Communication whose text contains a
\* table the Table Parser recognizes with at least one member is never delivered
\* with a type other than table_results
C18_EveryCommunicationEnriched ==
  \A i \in 1..Len(lastEvt.delivered) :
    lastEvt.delivered[i].found >= 1 => lastEvt.delivered[i].ctype = "table_results"

\* the number of members the Table Parser finds in the text of the Communication
\* made from the agent_communication m: its fullContent, or its simplified text
\* when there is no fullContent
MembersInText(m) ==
  LET text == IF m.data.fullContent # Undef THEN m.data.fullContent ELSE m.data.simplified
  IN IF text \in Texts THEN text ELSE 0

CommsOf(k) ==
  LET own == SelectSeq(history.log, LAMBDA e : e.seq = k)
  IN [i \in 1..Len(own) |-> own[i].comm]

IsPrefix(a, b) == Len(a) <= Len(b) /\ \A i \in 1..Len(a) : a[i] = b[i]

\* the Communications the handler of m produces, or the first of them followed by
\* the critical-error Communication when the callback threw
InProductionOrder(cs, m) ==
  \/ IsPrefix(cs, commsFor(m))
  \/ /\ cs # <<>>
     /\ cs[Len(cs)] = CriticalError
     /\ IsPrefix(SubSeq(cs, 1, Len(cs) - 1), commsFor(m))

\* C20: the messages received on the socket are handled in receipt order, without
\* reordering or batching: the callback gets the Communications in the order of the
\* messages that produced them, all those of one message before any of the next
C20_ReceiptOrder ==
  /\ \A i, j \in 1..Len(history.log) :
       i < j => history.log[i].seq <= history.log[j].seq
  /\ \A i \in 1..Len(history.log) :
       InProductionOrder(CommsOf(history.log[i].seq), history.log[i].msg)

\* three messages were received; the first produced two Communications, and the
\* second and the third one each
C20_Witness ==
  /\ history.n = 3
  /\ Len(history.log) = 4
  /\ history.log[1].seq = 1 /\ history.log[1].comm.ctype = "table_results"
  /\ history.log[2].seq = 1
  /\ history.log[3].seq = 2
  /\ history.log[4].seq = 3

\* startSession invocation k ended because the connect() it awaited was rejected
ConnectRejected(evt, k) ==
  \E e \in evt.settled : e.kind = "start" /\ e.k = k /\ ~e.ok /\ e.why = "unable_to_connect"

\* C21: connect() on an open socket resolves at once, opens no socket and leaves
\* the reconnect counter, the manual-close flag, the registry and the session id
\* (every field) as they were; otherwise it opens a connection, and its promise
\* resolves when that socket's open event fires and rejects when its error event
\* fires, and not before
C21_ConnectIdempotent ==
  /\ [](isConnected => connectIn(Cur, FALSE) = Cur)
  /\ [](~isConnected /\ FreeSocks(Cur) # {} =>
          LET st == connectIn(Cur, FALSE) IN
          /\ st.ws # Null
          /\ socks[st.ws] = "closed" /\ st.socks[st.ws] = "connecting"
          /\ st.nConnects = nConnects + 1)
  /\ [][\A k \in StartIds :
          /\ StartCalled(k) /\ isConnected => starts'[k].pc # "awaitConnect"
          /\ starts[k].pc = "awaitConnect" =>
               LET s == starts[k].sock IN
               /\ socks[s] = "connecting" /\ socks'[s] = "open" =>
                    starts'[k].pc # "awaitConnect" /\ ~ConnectRejected(lastEvt', k)
               /\ socks[s] \in {"connecting", "failing"} /\ socks'[s] = "closed" =>
                    ConnectRejected(lastEvt', k)
               /\ starts'[k].pc # "awaitConnect" => socks'[s] \in {"open", "closed"}]_vars

\* a startSession that awaited connect() was rejected by the error event of its socket
C21_Witness ==
  /\ \E k \in StartIds : ConnectRejected(lastEvt, k)
  /\ isConnected

\* parse has been called on the text
Parsed == result.fn = "parse"

\* a data row that is syntactically valid: not a header, at least 5 non-empty
\* cells, a digit in the rank cell
ValidRow(l) == l.k \in {"row", "row_conclusion", "row_cm"} /\ l.rank # Undef

\* the valid rows among the lines numbered in lineNumbers, in the order of the text
RECURSIVE RowsAmong(_, _)
RowsAmong(content, lineNumbers) ==
  IF lineNumbers = <<>> THEN <<>>
  ELSE LET i == Head(lineNumbers) IN
       (IF ValidRow(content[i]) THEN <<[row |-> i, rank |-> content[i].rank]>> ELSE <<>>)
       \o RowsAmong(content, Tail(lineNumbers))

HeaderCount(content) == Cardinality({i \in 1..Len(content) : isTableHeader(content[i])})

\* C22: a text with exactly two qualifying header lines (and a valid row in one of
\* the two tables) parses to hasDualTables = true, alignedMembers being the rows of
\* the first table and opposedMembers the rows of the second; with any other
\* number of header lines the result never has hasDualTables = true
C22_DualTables ==
  Parsed =>
    LET first == extractTableByOrder(argument, 1)
        second == extractTableByOrder(argument, 2)
        t == result.value
    IN IF HeaderCount(argument) = 2
       THEN RowsAmong(argument, first \o second) # <<>> =>
              /\ t.found /\ t.hasDualTables
              /\ t.alignedMembers = RowsAmong(argument, first)
              /\ t.opposedMembers = RowsAmong(argument, second)
       ELSE ~t.hasDualTables

AllLines(content) == [i \in 1..Len(content) |-> i]

\* the text is one table: text that is no table line, the well-formed header at
\* line h, an optional separator line, valid data rows up to line e, and text that
\* is no table line
OneTableAt(content, h, e) ==
  /\ content[h].k = "header"
  /\ \A i \in 1..(h - 1) : content[i].k \in {"blank", "prose"}
  /\ \A i \in (h + 1)..e : ValidRow(content[i]) \/ (i = h + 1 /\ content[i].k = "sep")
  /\ \E i \in (h + 1)..e : ValidRow(content[i])
  /\ \A i \in (e + 1)..Len(content) : content[i].k \in {"blank", "prose"}

OneTable(content) ==
  \E h \in 1..Len(content) : \E e \in h..Len(content) : OneTableAt(content, h, e)

\* C23: a text with exactly one well-formed header followed by N >= 1 valid data
\* rows parses to hasDualTables = false and totalMembers = N, the members in the
\* order of the rows, whatever the reason cells say
C23_SingleTable ==
  Parsed /\ OneTable(argument) =>
    /\ result.value.found
    /\ ~result.value.hasDualTables
    /\ result.value.totalMembers = Len(RowsAmong(argument, AllLines(argument)))
    /\ result.value.members = RowsAmong(argument, AllLines(argument))

Ranks(members) == {members[i].rank : i \in 1..Len(members)}

\* C24: every member of every parsed table, in members, alignedMembers and
\* opposedMembers, has a rank that is a positive integer, whatever the rank
\* cell of its row holds.
C24_RankPositive ==
  Parsed /\ result.value.found =>
    \A r \in Ranks(result.value.members) \cup Ranks(result.value.alignedMembers)
                \cup Ranks(result.value.opposedMembers) : r >= 1

\* a data row whose rank cell holds no digit
UnrankedRow(l) == l.k = "row" /\ l.rank = Undef

\* the text is one table as in OneTableAt, whose rows are valid rows and rows
\* without a digit in the rank cell, at least one of each
UnrankedTableAt(content, h, e) ==
  /\ content[h].k = "header"
  /\ \A i \in 1..(h - 1) : content[i].k \in {"blank", "prose"}
  /\ \A i \in (h + 1)..e :
       ValidRow(content[i]) \/ UnrankedRow(content[i]) \/ (i = h + 1 /\ content[i].k = "sep")
  /\ \E i \in (h + 1)..e : UnrankedRow(content[i])
  /\ \E i \in (h + 1)..e : ValidRow(content[i])
  /\ \A i \in (e + 1)..Len(content) : content[i].k \in {"blank", "prose"}

UnrankedTable(content) ==
  \E h \in 1..Len(content) : \E e \in h..Len(content) : UnrankedTableAt(content, h, e)

\* C25: a data row without a digit in its rank cell is left out and does not end
\* the parsing: every valid row of the same table, before and after it, is in the
\* result, in the order of the rows
C25_UnrankedRowDropped ==
  Parsed /\ UnrankedTable(argument) =>
    /\ result.value.found
    /\ result.value.members = RowsAmong(argument, AllLines(argument))

\* a table is detected in the text, by either mode
TableDetected(content) == detectDualTables(content) \/ detectTableInMessage(content)

\* no line of the text parses as a data row
NoValidRow(content) == \A i \in 1..Len(content) : parseTableRow(content[i], i) = <<>>

\* C26: parsing is total: for every text the result is null or a table with at
\* least one member, and a text in which no line parses as a data row gives
\* null, also when a table is detected in it
C26_NullOrNonEmpty ==
  Parsed =>
    LET t == result.value IN
    /\ t = NoTable \/ (t.found /\ Len(t.members) >= 1 /\ t.totalMembers = Len(t.members))
    /\ NoValidRow(argument) => t = NoTable

C26_Witness ==
  Parsed /\ TableDetected(argument) /\ NoValidRow(argument) /\ result.value = NoTable

NameParsed == result.fn = "parseName"

\* the cell ends in "(D)" or "(R)"
EndsInParty(cell) ==
  LET n == Len(cell) IN
  n >= 3 /\ cell[n - 2] = "(" /\ cell[n - 1] \in PartyCodes /\ cell[n] = ")"

\* the cell ends in a suffix "(D-XY)" or "(R-XY)" that starts at token i, XY being
\* a state code
PartyStateSuffixAt(cell, i) ==
  LET n == Len(cell) IN
  /\ i + 4 <= n
  /\ cell[i] = "(" /\ cell[i + 1] \in PartyCodes /\ cell[i + 2] = "-"
  /\ \A j \in (i + 3)..(n - 1) : cell[j] \in {"w"} \cup PartyCodes
  /\ cell[n] = ")"

PartyName(code) == IF code = "D" THEN "Democrat" ELSE "Republican"

\* C27: a name cell that ends in (D) or (R), or in a suffix (D-XY) or (R-XY), gives
\* the name without the suffix and the party Democrat or Republican; a name cell
\* without such a suffix gives the whole cell as name and no party
C27_NameAndParty ==
  NameParsed =>
    LET n == Len(argument) IN
    IF EndsInParty(argument)
    THEN result.value = [name |-> trim(SubSeq(argument, 1, n - 3)),
                         party |-> <<PartyName(argument[n - 1])>>]
    ELSE IF \E i \in 1..n : PartyStateSuffixAt(argument, i)
    THEN LET i == CHOOSE i \in 1..n : PartyStateSuffixAt(argument, i) IN
         result.value = [name |-> trim(SubSeq(argument, 1, i - 1)),
                         party |-> <<PartyName(argument[i + 1])>>]
    ELSE result.value = [name |-> argument, party |-> <<>>]

StateParsed == result.fn = "parseState"

\* the cell is two upper-case letters, a dash and one or more digits
DistrictForm(cell) ==
  /\ Len(cell) >= 4
  /\ \A j \in 1..Len(cell) :
       IF j <= 2 THEN cell[j] \in UpperCase ELSE IF j = 3 THEN cell[j] = "-" ELSE cell[j] \in Digits

\* C28: a state/district cell XX-NN gives state XX and district NN; a cell XX
\* gives state XX without district; every other cell is the state as it is,
\* without district
C28_StateAndDistrict ==
  StateParsed =>
    IF DistrictForm(argument)
    THEN /\ result.value.state = <<argument[1], argument[2]>>
         /\ result.value.district = [j \in 1..(Len(argument) - 3) |-> argument[j + 3]]
    ELSE result.value = [state |-> argument, district |-> <<>>]

C28_Witness ==
  /\ StateParsed
  /\ argument = <<"M", "D", "-", "0", "3">>
  /\ result.value = [state |-> <<"M", "D">>, district |-> <<"0", "3">>]

\* the acknowledgement timer of startInvestigation call k fires in this step after
\* the call was settled. A call whose timer is ahead was sent, and only a message
\* or the timer settles a call that was sent.
StaleStartTimerFires(k) ==
  StartTimerPending(k) /\ ~StartTimerPending(k)' /\ starts[k].pc # "awaitStart"

StaleStopTimerFires(j) ==
  StopTimerPending(j) /\ ~StopTimerPending(j)' /\ stops[j].pc # "awaitStop"

\* the step leaves every pending call pending and its handler registered
PendingCallsUntouched ==
  /\ \A k \in StartIds :
       starts[k].pc = "awaitStart" =>
         /\ starts'[k].pc = "awaitStart"
         /\ Registered(messageHandlers, [id |-> "start_handler", k |-> k]) =>
              Registered(messageHandlers', [id |-> "start_handler", k |-> k])
  /\ \A j \in StopIds :
       stops[j].pc = "awaitStop" =>
         /\ stops'[j].pc = "awaitStop"
         /\ Registered(messageHandlers, [id |-> "stop_handler", k |-> j]) =>
              Registered(messageHandlers', [id |-> "stop_handler", k |-> j])

\* C29: when the acknowledgement timer of a startInvestigation or stopInvestigation
\* call that a backend message has settled fires, it unregisters the handler of no
\* call that is pending then and settles no such call
C29_StaleTimerHarmless ==
  [][(\/ \E k \in StartIds : StaleStartTimerFires(k)
      \/ \E j \in StopIds : StaleStopTimerFires(j)) => PendingCallsUntouched]_vars

\* stopSession call j is made in this step on an active session
StopSessionCalled(j) == stops[j].pc = "idle" /\ stops'[j].pc # "idle" /\ sessionActive

\* isSessionActive() is false and there is no callback a Communication could be
\* delivered to
SessionStopped == ~sessionActive /\ communicationCallback = Null

\* C30: stopSession and disconnect() update the local session state at once: from
\* the call of stopSession on an active session on, also while the call waits for
\* investigation_stopped or its 5-second timer, isSessionActive() is false and no
\* Communication is delivered to the callback
C30_StopIsImmediate ==
  /\ [][disconnect => ~sessionActive' /\ currentSessionId' = Null]_vars
  /\ [][\A j \in StopIds : StopSessionCalled(j) => SessionStopped']_vars
  /\ [](\A j \in StopIds : stops[j].pc = "awaitStop" => SessionStopped)

\* C31: each message the orchestrator handles results in zero or one Communication
\* passed to the callback, whatever its type and payload
C31_AtMostOneCommunication ==
  lastEvt.outcome = "feed" => Len(lastEvt.delivered) <= 1

Formatted == result.fn = "format"

\* C32: the digest lists the members in ascending order of rank and at most 10 of
\* them, for a table of fewer than, exactly or more than 10 members, with or
\* without equal ranks; the members it lists are those of lowest rank
C32_DigestTopTen ==
  Formatted =>
    LET entries == result.value.entries
        listed == {entries[i] : i \in 1..Len(entries)}
        members == {argument[i] : i \in 1..Len(argument)}
    IN /\ Len(entries) <= 10
       /\ Len(entries) = IF Len(argument) < 10 THEN Len(argument) ELSE 10
       /\ \A i \in 1..(Len(entries) - 1) : entries[i].rank <= entries[i + 1].rank
       /\ listed \subseteq members
       /\ Cardinality(listed) = Len(entries)
       /\ \A a \in listed, b \in members \ listed : a.rank <= b.rank

C32_Witness ==
  /\ Formatted
  /\ Len(argument) = 11
  /\ argument[1].rank = 2 /\ argument[11].rank = 1
  /\ Len(result.value.entries) = 10
  /\ result.value.entries[1].rank = 1

Extracted == result.fn = "extract" /\ result.value.lines # <<>>

\* a line the buffer takes: a separator row or a line of at least 5 columns
Buffered(l) == ~isTableHeader(l) /\ (isSeparator(l) \/ cellCount(l) >= 5)

\* a line that ends a buffer of n lines: a blank or other line without pipe once 3
\* lines are buffered, or the next header
Terminates(l, n) == isTableHeader(l) \/ (~includesPipe(l) /\ n >= 3)

\* C33: an extracted table starts at a qualifying header line; its other lines
\* are exactly the separator rows and the lines of at least 5 pipe-delimited
\* columns that follow the header up to the line that terminates the buffer (a
\* blank or non-pipe line once 3 lines are buffered, the next header, or the end
\* of the text), and no line after the terminating line is in it
C33_ExtractionStateMachine ==
  Extracted =>
    LET T == result.value.lines
        inT == {T[q] : q \in 1..Len(T)}
        h == T[1]
        before(j) == Cardinality({i \in inT : i < j})
    IN /\ isTableHeader(argument[h])
       /\ \A q \in 2..Len(T) : T[q - 1] < T[q] /\ Buffered(argument[T[q]])
       /\ \A j \in (h + 1)..Len(argument) :
            IF \E t \in (h + 1)..j : Terminates(argument[t], before(t))
            THEN j \notin inT
            ELSE j \in inT <=> Buffered(argument[j])

BillIdFilled == result.fn = "billId"

\* a bill identifier like "S. 383-116" or "HR1234-117" stands at positions p..e of
\* the text: S, H or HR, with or without a dot and white space behind it, the
\* bill number, a dash and the number of the congress
BillIdentifierAt(content, p, e) ==
  \E prefix \in {p, p + 1} :
    /\ prefix <= Len(content)
    /\ IF prefix = p THEN content[p] \in {"S", "H"}
       ELSE content[p] = "H" /\ content[p + 1] = "R"
    /\ LET afterDot == IF prefix < Len(content) /\ content[prefix + 1] = "."
                       THEN prefix + 1 ELSE prefix
           afterSpace == runEnd(content, afterDot + 1, {" "})
           afterNumber == runEnd(content, afterSpace + 1, {"3"})
       IN /\ afterNumber > afterSpace
          /\ afterNumber < Len(content) /\ content[afterNumber + 1] = "-"
          /\ e = runEnd(content, afterNumber + 2, {"3"})
          /\ e > afterNumber + 1

BillIdentifiers(content) ==
  {pe \in (1..Len(content)) \X (1..Len(content)) : BillIdentifierAt(content, pe[1], pe[2])}

\* C34: the billId of a returned table is the bill identifier of the form
\* "S. 383-116" or "HR1234-117" that the text contains, wherever it stands, and
\* undefined when the text contains none
C34_BillId ==
  BillIdFilled =>
    IF BillIdentifiers(argument) = {}
    THEN result.value = <<>>
    ELSE \E pe \in BillIdentifiers(argument) : result.value = SubSeq(argument, pe[1], pe[2])

\* C35: whenever isSessionActive() is true a communication callback is
\* registered, in every reachable state, also when a startSession overlaps with a
\* stopSession that awaits its acknowledgement or with another startSession
C35_ActiveHasCallback ==
  sessionActive => communicationCallback # Null

\* the orchestrator has just handled a terminal event
TerminalHandled ==
  /\ lastEvt.outcome = "feed"
  /\ lastEvt.switchReached
  /\ lastEvt.msg.type \in {"investigation_complete", "investigation_concluded",
                           "investigation_error"}

\* the step is not a call of startSession
NoStartSessionCalled == \A k \in StartIds : starts[k].pc = "idle" => starts'[k].pc = "idle"

\* C36: once the orchestrator has handled a terminal event, isSessionActive()
\* stays false until startSession is called again, also when the event arrives
\* while a startSession awaits its acknowledgement and the 30-second timer fires
\* afterwards: the task that follows the handling of a terminal event, when it
\* is not a call of startSession, leaves isSessionActive() false
C36_TerminalStaysInactive ==
  [][TerminalHandled /\ NoStartSessionCalled => ~sessionActive']_vars

\* the sockets of the transport that are connecting or open
LiveSocks == {s \in SockIds : socks[s] \in {"connecting", "open"}}

\* C37: the transport never has more than one socket that is connecting or open,
\* and its reconnect-attempt counter never exceeds 5, whatever the order of
\* connect(), disconnect(), reconnect timers and open, error and close events
C37_OneSocketFiveAttempts ==
  /\ Cardinality(LiveSocks) <= 1
  /\ reconnectAttempts <= 5

\* the promise stopSession call j returned is settled in the step recorded in evt
StopSessionSettled(evt, j, ok) ==
  \E e \in evt.settled : e.kind = "stopSession" /\ e.k = j /\ e.ok = ok

\* stopSession call j, made on an active session, completes in this step
StopSessionCompletes(j) ==
  /\ (stops[j].pc = "idle" /\ sessionActive) \/ stops[j].pc = "awaitStop"
  /\ stops'[j].pc = "done"

\* C38: stopSession on an active session never rejects and completes with
\* isSessionActive() false, no current session id and no callback, whether
\* stopInvestigation resolved, was rejected by an error message, was rejected
\* because the socket was not open, or timed out (its timer is always ahead while
\* it is pending); stopSession on an inactive session sends no request and
\* changes nothing
C38_StopSessionCompletes ==
  /\ [][\A j \in StopIds :
          /\ stops[j].pc = "idle" /\ ~sessionActive /\ stops'[j].pc # "idle" =>
               /\ lastEvt'.sent = {}
               /\ UNCHANGED <<sessionActive, currentSessionId, communicationCallback,
                              sessionId, messageHandlers, timers, socks, ws>>
          /\ StopSessionCompletes(j) =>
               /\ StopSessionSettled(lastEvt', j, TRUE)
               /\ ~StopSessionSettled(lastEvt', j, FALSE)
               /\ ~sessionActive' /\ currentSessionId' = Null /\ communicationCallback' = Null
          /\ StopSessionSettled(lastEvt', j, TRUE) \/ StopSessionSettled(lastEvt', j, FALSE) =>
               stops'[j].pc = "done"]_vars
  /\ [](\A j \in StopIds : stops[j].pc = "awaitStop" => StopTimerPending(j))

\* a stopSession call has completed on an open connection after stopInvestigation
\* was rejected
C38_Witness ==
  \E j \in StopIds :
    /\ StopSettled(lastEvt, j, FALSE)
    /\ StopSessionSettled(lastEvt, j, TRUE)
    /\ isConnected
    /\ ~sessionActive /\ communicationCallback = Null

\* the handler startInvestigation call k registers
StartHandler(k) == [id |-> "start_handler", k |-> k]

\* the only socket has closed on its own while the handler h was registered, and the
\* transport is about to reconnect: every socket that opens from here on is a later one
ClosedUnexpectedly(h) ==
  /\ Registered(messageHandlers, h)
  /\ LiveSocks = {}
  /\ ~isManualClose
  /\ \E i \in 1..Len(timers) : timers[i].kind = "reconnect"

\* a valid message has been dispatched and the handler of the first startInvestigation
\* call was not called with it, although the call is still pending (offMessage
\* removes the first call's handler only in a task that settles the call) and the
\* handler has not thrown
MissedBy(k) ==
  /\ lastEvt.outcome = "dispatch"
  /\ starts[k].pc = "awaitStart"
  /\ StartHandler(k) \notin faulty
  /\ StartHandler(k) \notin lastEvt.invoked

\* C39: a handler that was registered when the socket closed unexpectedly, and that
\* neither offMessage nor a throw has removed, is called with every valid message that
\* arrives after the transport has reconnected (by its timer or by connect())
C39_RegistrySurvivesReconnect ==
  [](ClosedUnexpectedly(StartHandler(1)) => [](~MissedBy(1)))

\* C40: in every table parse returns, totalMembers is the length of members; a
\* dual-table result has alignedMembers and opposedMembers, and its members are
\* alignedMembers followed by opposedMembers, so that totalMembers is the sum of the
\* two lengths; a single-table result has neither property
C40_MemberCounts ==
  Parsed /\ result.value # NoTable =>
    LET t == result.value IN
    /\ t.totalMembers = Len(t.members)
    /\ IF t.hasDualTables
       THEN /\ t.sides
            /\ t.members = t.alignedMembers \o t.opposedMembers
            /\ t.totalMembers = Len(t.alignedMembers) + Len(t.opposedMembers)
       ELSE ~t.sides

C40_Witness ==
  /\ Parsed
  /\ result.value.hasDualTables
  /\ Len(result.value.alignedMembers) >= 1
  /\ Len(result.value.opposedMembers) >= 1
  /\ result.value.totalMembers = 2
====
